---------------------------- MODULE Spec2Model ----------------------------
(***************************************************************************)
(* A model of claude-cost's log-ingestion and aggregation engine           *)
(* (parser.ts and pricing.ts): the File Cache, the all-entries cache, the  *)
(* Stats Cache with its time-to-live, the range filter, the deduplication  *)
(* and the aggregation, together with the external writer that creates,    *)
(* rewrites and deletes the .jsonl files and the wall clock.               *)
(*                                                                         *)
(* Conventions.  A JavaScript value that may be undefined is a sequence of *)
(* length 0 (absent) or 1 (present).  A Map is a function whose DOMAIN is  *)
(* the set of keys it holds.  Strings are TLA+ strings; template literals  *)
(* are concatenations (\o).  Times are integers (milliseconds).  Money is  *)
(* kept exact: a price is stored in cents per million tokens, so a cost is *)
(* an integer number of 10^-8 dollars.                                     *)
(***************************************************************************)
EXTENDS Integers, Sequences, FiniteSets, TLC

\* ------------------------------------------------------------------ bounds
\* The clock advances at most MaxTicks times, by TickMs each time.
MaxTicks == 2
\* The external writer changes the file system at most MaxChanges times.
MaxChanges == 2
\* parseAllUsage is called at most MaxCalls times.
MaxCalls == 3
\* A file written line by line has at most MaxLines lines.
MaxLines == 3
\* The load loop, when run step by step, is run at most MaxLoads times.
MaxLoads == 2
\* The dashboard gets at most MaxEvents timer ticks and key presses.
MaxEvents == 3

\* --------------------------------------------------------- small utilities
Absent == <<>>
Some(x) == <<x>>
IsPresent(o) == o # <<>>

\* JavaScript `o || d` for an optional string: undefined and "" are falsy.
OrElseStr(o, d) == IF o = <<>> \/ o[1] = "" THEN d ELSE o[1]
\* JavaScript `o || 0` for an optional number.
OrZero(o) == IF o = <<>> THEN 0 ELSE o[1]

Range(s) == { s[i] : i \in DOMAIN s }

\* String.prototype.includes
Includes(s, sub) ==
  \E i \in 1..(Len(s) - Len(sub) + 1) : SubSeq(s, i, i + Len(sub) - 1) = sub

\* Number -> decimal string, as a template literal prints an integer.
Digit(d) == SubSeq("0123456789", d + 1, d + 1)
RECURSIVE NatStr(_)
NatStr(n) == IF n < 10 THEN Digit(n) ELSE NatStr(n \div 10) \o Digit(n % 10)
NumStr(n) == IF n < 0 THEN "-" \o NatStr(0 - n) ELSE NatStr(n)

\* String.prototype.toLowerCase on the characters model ids are written in.
LowerChar(c) ==
  LET up == "ABCDEFGHIJKLMNOPQRSTUVWXYZ"
      lo == "abcdefghijklmnopqrstuvwxyz"
  IN IF \E i \in 1..26 : SubSeq(up, i, i) = c
     THEN LET i == CHOOSE i \in 1..26 : SubSeq(up, i, i) = c IN SubSeq(lo, i, i)
     ELSE c
RECURSIVE ToLowerCase(_)
ToLowerCase(s) ==
  IF Len(s) = 0 THEN ""
  ELSE ToLowerCase(SubSeq(s, 1, Len(s) - 1)) \o LowerChar(SubSeq(s, Len(s), Len(s)))

\* ----------------------------------------------------------------- pricing
\* MODEL_PRICING in insertion order; prices in cents per million tokens.
Price(i, o, w, r) == [input |-> i, output |-> o, cacheWrite |-> w, cacheRead |-> r]
MODEL_PRICING ==
  << [key |-> "claude-opus-4-5-20251101",   pricing |-> Price(500, 2500, 625, 50)],
     [key |-> "claude-sonnet-4-5-20250929", pricing |-> Price(300, 1500, 375, 30)],
     [key |-> "claude-haiku-4-5-20251001",  pricing |-> Price(80, 400, 100, 8)],
     [key |-> "claude-opus-4-20250514",     pricing |-> Price(1500, 7500, 1875, 150)],
     [key |-> "claude-sonnet-4-5-20241022", pricing |-> Price(300, 1500, 375, 30)],
     [key |-> "claude-sonnet-4-20250514",   pricing |-> Price(300, 1500, 375, 30)],
     [key |-> "claude-3-7-sonnet-20250219", pricing |-> Price(300, 1500, 375, 30)],
     [key |-> "claude-3-5-sonnet-20241022", pricing |-> Price(300, 1500, 375, 30)],
     [key |-> "claude-3-5-sonnet-20240620", pricing |-> Price(300, 1500, 375, 30)],
     [key |-> "claude-3-5-haiku-20241022",  pricing |-> Price(80, 400, 100, 8)],
     [key |-> "claude-3-opus-20240229",     pricing |-> Price(1500, 7500, 1875, 150)],
     [key |-> "claude-3-sonnet-20240229",   pricing |-> Price(300, 1500, 375, 30)],
     [key |-> "claude-3-haiku-20240307",    pricing |-> Price(25, 125, 30, 3)] >>

DEFAULT_PRICING == Price(300, 1500, 375, 30)

\* MODEL_PRICING is an object literal: a lookup of a name that is not one of
\* its keys finds the properties it inherits from Object.prototype, and
\* these (functions, and the prototype itself for "__proto__") are truthy
\* and have none of the four price fields.
ObjectPrototypeKeys ==
  { "constructor", "__proto__", "hasOwnProperty", "isPrototypeOf",
    "propertyIsEnumerable", "toLocaleString", "toString", "valueOf",
    "__defineGetter__", "__defineSetter__", "__lookupGetter__", "__lookupSetter__" }
InheritedValue(name) == [inherited |-> name]

\* A number that is not a number: undefined times a number, and every sum
\* with it.
NaN == "NaN"

TableEntry(key) ==
  MODEL_PRICING[CHOOSE i \in DOMAIN MODEL_PRICING : MODEL_PRICING[i].key = key].pricing

\* PricingFor with the bare family names tried before the versioned rules.
PricingForBareNamesFirst(model, modelLower) ==
  LET exact == { i \in DOMAIN MODEL_PRICING : MODEL_PRICING[i].key = model }
      partial == { i \in DOMAIN MODEL_PRICING :
                     \/ Includes(modelLower, ToLowerCase(MODEL_PRICING[i].key))
                     \/ Includes(ToLowerCase(MODEL_PRICING[i].key), modelLower) }
      has(sub) == Includes(modelLower, sub)
  IN IF exact # {} THEN TableEntry(model)
     ELSE IF model \in ObjectPrototypeKeys THEN InheritedValue(model)
     ELSE IF partial # {}
       THEN MODEL_PRICING[CHOOSE i \in partial : \A j \in partial : i <= j].pricing
     ELSE IF has("haiku") THEN TableEntry("claude-3-haiku-20240307")
     ELSE IF has("opus") THEN TableEntry("claude-3-opus-20240229")
     ELSE IF has("sonnet") THEN TableEntry("claude-3-5-sonnet-20241022")
     ELSE DEFAULT_PRICING

\* getPricing after `const modelLower = model.toLowerCase()`.
PricingFor(model, modelLower) ==
  LET exact == { i \in DOMAIN MODEL_PRICING : MODEL_PRICING[i].key = model }
      partial == { i \in DOMAIN MODEL_PRICING :
                     \/ Includes(modelLower, ToLowerCase(MODEL_PRICING[i].key))
                     \/ Includes(ToLowerCase(MODEL_PRICING[i].key), modelLower) }
      has(sub) == Includes(modelLower, sub)
  IN IF exact # {} THEN TableEntry(model)
     ELSE IF model \in ObjectPrototypeKeys THEN InheritedValue(model)
     ELSE IF partial # {}
       THEN MODEL_PRICING[CHOOSE i \in partial : \A j \in partial : i <= j].pricing
     ELSE IF has("opus-4-5") \/ has("opus-4.5") \/ has("opus4.5")
       THEN TableEntry("claude-opus-4-5-20251101")
     ELSE IF has("sonnet-4-5") \/ has("sonnet-4.5") \/ has("sonnet4.5")
       THEN TableEntry("claude-sonnet-4-5-20241022")
     ELSE IF has("haiku-4-5") \/ has("haiku-4.5") \/ has("haiku4.5")
       THEN TableEntry("claude-3-5-haiku-20241022")
     ELSE IF has("opus-4") \/ has("opus4")
       THEN TableEntry("claude-opus-4-20250514")
     ELSE IF has("sonnet-4") \/ has("sonnet4")
       THEN TableEntry("claude-sonnet-4-20250514")
     ELSE IF has("3-5-haiku") \/ has("3.5-haiku")
       THEN TableEntry("claude-3-5-haiku-20241022")
     ELSE IF has("haiku") THEN TableEntry("claude-3-haiku-20240307")
     ELSE IF has("opus") THEN TableEntry("claude-3-opus-20240229")
     ELSE IF has("sonnet") THEN TableEntry("claude-3-5-sonnet-20241022")
     ELSE DEFAULT_PRICING

getPricing(model) == PricingFor(model, ToLowerCase(model))

\* The key of the entry of MODEL_PRICING that getPricing returns, or none
\* when it returns an inherited property or DEFAULT_PRICING.
KeyFor(model, modelLower) ==
  LET exact == { i \in DOMAIN MODEL_PRICING : MODEL_PRICING[i].key = model }
      partial == { i \in DOMAIN MODEL_PRICING :
                     \/ Includes(modelLower, ToLowerCase(MODEL_PRICING[i].key))
                     \/ Includes(ToLowerCase(MODEL_PRICING[i].key), modelLower) }
      has(sub) == Includes(modelLower, sub)
  IN IF exact # {} THEN Some(model)
     ELSE IF model \in ObjectPrototypeKeys THEN Absent
     ELSE IF partial # {}
       THEN Some(MODEL_PRICING[CHOOSE i \in partial : \A j \in partial : i <= j].key)
     ELSE IF has("opus-4-5") \/ has("opus-4.5") \/ has("opus4.5")
       THEN Some("claude-opus-4-5-20251101")
     ELSE IF has("sonnet-4-5") \/ has("sonnet-4.5") \/ has("sonnet4.5")
       THEN Some("claude-sonnet-4-5-20241022")
     ELSE IF has("haiku-4-5") \/ has("haiku-4.5") \/ has("haiku4.5")
       THEN Some("claude-3-5-haiku-20241022")
     ELSE IF has("opus-4") \/ has("opus4") THEN Some("claude-opus-4-20250514")
     ELSE IF has("sonnet-4") \/ has("sonnet4") THEN Some("claude-sonnet-4-20250514")
     ELSE IF has("3-5-haiku") \/ has("3.5-haiku") THEN Some("claude-3-5-haiku-20241022")
     ELSE IF has("haiku") THEN Some("claude-3-haiku-20240307")
     ELSE IF has("opus") THEN Some("claude-3-opus-20240229")
     ELSE IF has("sonnet") THEN Some("claude-3-5-sonnet-20241022")
     ELSE Absent

\* The cost in units of 10^-8 dollars: (tokens / 1_000_000) * dollars per
\* million = tokens * (cents per million) * 10^-8 dollars.
CostAt(pricing, inputTokens, outputTokens, cacheCreationTokens, cacheReadTokens) ==
  IF "input" \notin DOMAIN pricing THEN NaN      \* pricing.input is undefined
  ELSE inputTokens * pricing.input + outputTokens * pricing.output
         + cacheCreationTokens * pricing.cacheWrite + cacheReadTokens * pricing.cacheRead

calculateCost(model, inputTokens, outputTokens, cacheCreationTokens, cacheReadTokens) ==
  CostAt(getPricing(model), inputTokens, outputTokens, cacheCreationTokens, cacheReadTokens)

\* ------------------------------------------------------------ log records
\* One line of a .jsonl file.  text is "" (an empty line), "malformed" (not
\* JSON) or "json"; a JSON line carries the fields parseJsonlFile looks at.
Usage(i, o, w, r) ==
  [input_tokens |-> i, output_tokens |-> o,
   cache_creation_input_tokens |-> w, cache_read_input_tokens |-> r]

JsonLine(type, message, timestamp, sessionId, cwd, uuid) ==
  [text |-> "json", type |-> type, message |-> message, timestamp |-> timestamp,
   sessionId |-> sessionId, cwd |-> cwd, uuid |-> uuid]

Message(usage, model, id) == [usage |-> usage, model |-> model, id |-> id]

\* An assistant record with input tokens only.
Assistant(sessionId, messageId, timestamp, model, inputTokens) ==
  JsonLine("assistant",
           Some(Message(Some(Usage(Some(inputTokens), Absent, Absent, Absent)),
                        Some(model), Some(messageId))),
           timestamp, Some(sessionId), Some("/home/u/proj"), Some("u-1"))

UserLine == JsonLine("user", Absent, 2, Some("a"), Some("/home/u/proj"), Some("u-2"))
MalformedLine == [text |-> "malformed"]
EmptyLine == [text |-> ""]

\* Lines 117-138: the entry pushed for a record that passed the checks.
MakeEntry(line, message, inputTokens, outputTokens, cacheCreationTokens, cacheReadTokens, src) ==
  [timestamp |-> line.timestamp,
   model |-> message.model[1],
   usage |-> [inputTokens |-> inputTokens,
              outputTokens |-> outputTokens,
              cacheCreationTokens |-> cacheCreationTokens,
              cacheReadTokens |-> cacheReadTokens],
   cost |-> calculateCost(message.model[1], inputTokens, outputTokens,
                          cacheCreationTokens, cacheReadTokens),
   sessionId |-> OrElseStr(line.sessionId, "unknown"),
   project |-> OrElseStr(line.cwd, "unknown"),
   messageId |-> OrElseStr(message.id, OrElseStr(line.uuid, "unknown")),
   src |-> src]

\* CountTokens without the skip of a record with no tokens.
CountTokensKeepZero(line, message, inputTokens, outputTokens, cacheCreationTokens, cacheReadTokens, src) ==
  << MakeEntry(line, message, inputTokens, outputTokens,
               cacheCreationTokens, cacheReadTokens, src) >>

\* Lines 106-115: the token counts, and the skip of a record with none.
CountTokens(line, message, inputTokens, outputTokens, cacheCreationTokens, cacheReadTokens, src) ==
  IF inputTokens = 0 /\ outputTokens = 0 /\ cacheCreationTokens = 0 /\ cacheReadTokens = 0
  THEN <<>>
  ELSE << MakeEntry(line, message, inputTokens, outputTokens,
                    cacheCreationTokens, cacheReadTokens, src) >>

\* Lines 101-110.
ParseMessage(line, message, src) ==
  IF message.usage = <<>> \/ message.model = <<>> \/ message.model = <<"">> THEN <<>>
  ELSE CountTokens(line, message,
                   OrZero(message.usage[1].input_tokens),
                   OrZero(message.usage[1].output_tokens),
                   OrZero(message.usage[1].cache_creation_input_tokens),
                   OrZero(message.usage[1].cache_read_input_tokens), src)

\* ParseLine without the test of the record's type.
ParseLineAnyType(line, src) ==
  IF line.text # "json" THEN <<>>
  ELSE IF line.message = <<>> THEN <<>>
  ELSE ParseMessage(line, line.message[1], src)

\* The body of the for loop of parseJsonlFile: the entries one line adds
\* (none or one).  src is the path the line was read from (kept with the
\* entry for the properties below; the program does not store it).
ParseLine(line, src) ==
  IF line.text # "json" THEN <<>>                      \* JSON.parse throws
  ELSE IF line.type # "assistant" THEN <<>>
  ELSE IF line.message = <<>> THEN <<>>
  ELSE ParseMessage(line, line.message[1], src)

\* ParseLines with the inner try/catch left out: the first line that is
\* not JSON ends the loop.
RECURSIVE ParseLinesAborting(_, _)
ParseLinesAborting(lines, src) ==
  IF lines = <<>> THEN <<>>
  ELSE IF Head(lines).text = "" THEN ParseLinesAborting(Tail(lines), src)
  ELSE IF Head(lines).text # "json" THEN <<>>
  ELSE ParseLine(Head(lines), src) \o ParseLinesAborting(Tail(lines), src)

\* content.split("\n").filter(Boolean) and the loop over the lines.
RECURSIVE ParseLines(_, _)
ParseLines(lines, src) ==
  IF lines = <<>> THEN <<>>
  ELSE IF Head(lines).text = "" THEN ParseLines(Tail(lines), src)
  ELSE ParseLine(Head(lines), src) \o ParseLines(Tail(lines), src)

\* ------------------------------------------------- sorting, deduplication
\* Array.prototype.sort is stable.  sign = 1 sorts by timestamp ascending
\* ((a, b) => a - b), sign = -1 descending ((a, b) => b - a).
RECURSIVE InsertSorted(_, _, _)
InsertSorted(x, s, sign) ==
  IF s = <<>> THEN <<x>>
  ELSE IF sign * x.timestamp < sign * Head(s).timestamp THEN <<x>> \o s
  ELSE <<Head(s)>> \o InsertSorted(x, Tail(s), sign)

RECURSIVE SortByTimestamp(_, _)
SortByTimestamp(s, sign) ==
  IF s = <<>> THEN <<>>
  ELSE InsertSorted(s[Len(s)], SortByTimestamp(SubSeq(s, 1, Len(s) - 1), sign), sign)

\* const key = `${entry.sessionId}-${entry.messageId}`
DedupKey(entry) == entry.sessionId \o "-" \o entry.messageId

\* The loop over the descending list: keep the first entry seen of each key.
RECURSIVE DedupLoop(_, _, _)
DedupLoop(rest, seenMessages, deduplicated) ==
  IF rest = <<>> THEN deduplicated
  ELSE LET entry == Head(rest)
           key == DedupKey(entry)
       IN IF key \notin seenMessages
          THEN DedupLoop(Tail(rest), seenMessages \cup {key}, Append(deduplicated, entry))
          ELSE DedupLoop(Tail(rest), seenMessages, deduplicated)

\* InRange with the bounds excluded (> and < for >= and <=).
InRangeExclusive(e, since, until) ==
  /\ (IsPresent(since) => e.timestamp > since[1])
  /\ (IsPresent(until) => e.timestamp < until[1])

\* Lines 229-236: the range filter (both bounds inclusive, both optional).
InRange(e, since, until) ==
  /\ (IsPresent(since) => e.timestamp >= since[1])
  /\ (IsPresent(until) => e.timestamp <= until[1])

RECURSIVE FilterRange(_, _, _)
FilterRange(s, since, until) ==
  IF s = <<>> THEN <<>>
  ELSE IF InRange(Head(s), since, until)
       THEN <<Head(s)>> \o FilterRange(Tail(s), since, until)
       ELSE FilterRange(Tail(s), since, until)

\* Lines 238-254: sort descending, deduplicate, sort ascending.
Deduplicate(filtered) ==
  SortByTimestamp(DedupLoop(SortByTimestamp(filtered, -1), {}, <<>>), 1)

\* ------------------------------------------------------------- aggregation
getModelDisplayName(model) ==
  LET modelLower == ToLowerCase(model)
      has(sub) == Includes(modelLower, sub)
  IN IF has("opus-4-5") \/ has("opus-4.5") THEN "Opus 4.5"
     ELSE IF has("sonnet-4-5") \/ has("sonnet-4.5") THEN "Sonnet 4.5"
     ELSE IF has("haiku-4-5") \/ has("haiku-4.5") THEN "Haiku 4.5"
     ELSE IF has("opus-4") \/ has("opus4") THEN "Opus 4"
     ELSE IF has("sonnet-4") \/ has("sonnet4") THEN "Sonnet 4"
     ELSE IF has("3-7-sonnet") \/ has("3.7") THEN "Sonnet 3.7"
     ELSE IF has("3-5-sonnet") \/ has("3.5-sonnet") THEN "Sonnet 3.5"
     ELSE IF has("3-5-haiku") \/ has("3.5-haiku") THEN "Haiku 3.5"
     ELSE IF has("opus") THEN "Opus 3"
     ELSE IF has("sonnet") THEN "Sonnet 3"
     ELSE IF has("haiku") THEN "Haiku 3"
     ELSE SubSeq(model, 1, IF Len(model) < 20 THEN Len(model) ELSE 20)

ZeroTokens ==
  [inputTokens |-> 0, outputTokens |-> 0, cacheCreationTokens |-> 0, cacheReadTokens |-> 0]

AddTokens(a, b) ==
  [inputTokens |-> a.inputTokens + b.inputTokens,
   outputTokens |-> a.outputTokens + b.outputTokens,
   cacheCreationTokens |-> a.cacheCreationTokens + b.cacheCreationTokens,
   cacheReadTokens |-> a.cacheReadTokens + b.cacheReadTokens]

RECURSIVE SumTokens(_)
SumTokens(entries) ==
  IF entries = <<>> THEN ZeroTokens
  ELSE AddTokens(SumTokens(SubSeq(entries, 1, Len(entries) - 1)), entries[Len(entries)].usage)

RECURSIVE SumCost(_)
SumCost(entries) ==
  IF entries = <<>> THEN 0
  ELSE SumCost(SubSeq(entries, 1, Len(entries) - 1)) + entries[Len(entries)].cost

OfModel(entries, model) == SelectSeq(entries, LAMBDA e : e.model = model)

\* Lines 311-312: the local calendar day of a timestamp, as "YYYY-MM-DD".
\* Record timestamps count quarter days from local midnight of 2025-01-01.
TimestampsPerDay == 4
PadStart2(str) == IF Len(str) < 2 THEN "0" \o str ELSE str
DateString(timestamp) ==
  "2025-01-" \o PadStart2(NumStr(1 + timestamp \div TimestampsPerDay))

\* a.localeCompare(b) < 0 on the characters date strings are written in.
CharRank(c) == CHOOSE i \in 1..11 : SubSeq("-0123456789", i, i) = c
RECURSIVE LocaleLess(_, _)
LocaleLess(a, b) ==
  IF Len(b) = 0 THEN FALSE
  ELSE IF Len(a) = 0 THEN TRUE
  ELSE IF SubSeq(a, 1, 1) # SubSeq(b, 1, 1)
       THEN CharRank(SubSeq(a, 1, 1)) < CharRank(SubSeq(b, 1, 1))
       ELSE LocaleLess(SubSeq(a, 2, Len(a)), SubSeq(b, 2, Len(b)))

OfDay(entries, date) == SelectSeq(entries, LAMBDA e : DateString(e.timestamp) = date)

\* DayOrder that keeps the day of the first entry only.
DayOrderFirstOnly(entries, seen) ==
  IF entries = <<>> THEN <<>> ELSE << DateString(Head(entries).timestamp) >>

\* The keys of dailyMap in insertion order: each day at its first entry.
RECURSIVE DayOrder(_, _)
DayOrder(entries, seen) ==
  IF entries = <<>> THEN <<>>
  ELSE IF DateString(Head(entries).timestamp) \in seen
       THEN DayOrder(Tail(entries), seen)
       ELSE << DateString(Head(entries).timestamp) >>
              \o DayOrder(Tail(entries), seen \cup { DateString(Head(entries).timestamp) })

\* Lines 372-411: the summary of one day.
DailySummary(date, dayEntries) ==
  [date |-> date,
   totalCost |-> SumCost(dayEntries),
   totalTokens |-> SumTokens(dayEntries),
   sessionCount |-> Cardinality({ dayEntries[i].sessionId : i \in DOMAIN dayEntries }),
   messageCount |-> Len(dayEntries),
   byModel |-> [m \in { dayEntries[i].model : i \in DOMAIN dayEntries } |->
                  [cost |-> SumCost(OfModel(dayEntries, m)),
                   tokens |-> SumTokens(OfModel(dayEntries, m))]]]

\* daily.sort((a, b) => b.date.localeCompare(a.date)): stable, descending.
RECURSIVE InsertDaily(_, _)
InsertDaily(x, s) ==
  IF s = <<>> THEN <<x>>
  ELSE IF LocaleLess(Head(s).date, x.date) THEN <<x>> \o s
  ELSE <<Head(s)>> \o InsertDaily(x, Tail(s))

RECURSIVE SortDaily(_)
SortDaily(s) ==
  IF s = <<>> THEN <<>>
  ELSE InsertDaily(s[Len(s)], SortDaily(SubSeq(s, 1, Len(s) - 1)))

RECURSIVE DailyOf(_, _)
DailyOf(entries, days) ==
  IF days = <<>> THEN <<>>
  ELSE << DailySummary(Head(days), OfDay(entries, Head(days))) >>
         \o DailyOf(entries, Tail(days))

\* A record timestamp (quarter days since 2025-01-01, local) of a clock
\* value (milliseconds since then).
TimestampOf(clock) == clock \div (6 * 60 * 60 * 1000)
StartOfDay(t) == (t \div TimestampsPerDay) * TimestampsPerDay

\* Lines 279-280: new Date() with setHours(0, 0, 0, 0), local midnight of
\* the day computeStats runs on.
TodayStart(clock) == StartOfDay(TimestampOf(clock))

\* entry.timestamp.getHours(): a quarter day is six hours.
GetHours(timestamp) == (timestamp % TimestampsPerDay) * (24 \div TimestampsPerDay)

\* The keys of sessionMap in insertion order: each session at its first entry.
RECURSIVE SessionOrder(_, _)
SessionOrder(entries, seen) ==
  IF entries = <<>> THEN <<>>
  ELSE IF Head(entries).sessionId \in seen
       THEN SessionOrder(Tail(entries), seen)
       ELSE << Head(entries).sessionId >>
              \o SessionOrder(Tail(entries), seen \cup { Head(entries).sessionId })

OfSession(entries, sessionId) == SelectSeq(entries, LAMBDA e : e.sessionId = sessionId)

\* The entry a session takes its model from, were it the first one.
LastEntryIsFirst(sorted) == sorted[1]

\* Line 353: const lastEntry = sorted[sorted.length - 1].
LastEntry(sorted) == sorted[Len(sorted)]

\* Lines 352-363: the summary of one session, sorted being its entries in
\* ascending order of timestamp.
SessionOf(sessionId, sorted) ==
  [sessionId |-> sessionId,
   project |-> sorted[1].project,
   firstMessage |-> sorted[1].timestamp,
   lastMessage |-> LastEntry(sorted).timestamp,
   totalCost |-> SumCost(sorted),
   totalTokens |-> SumTokens(sorted),
   messageCount |-> Len(sorted),
   model |-> LastEntry(sorted).model]

\* Lines 333-363: one summary per key of sessionMap.
RECURSIVE SessionsOf(_, _)
SessionsOf(entries, ids) ==
  IF ids = <<>> THEN <<>>
  ELSE << SessionOf(Head(ids), SortByTimestamp(OfSession(entries, Head(ids)), 1)) >>
         \o SessionsOf(entries, Tail(ids))

\* The sort that leaves the summaries in the order of sessionMap.
InsertSessionLast(x, s) == Append(s, x)

\* sessions.sort((a, b) => b.lastMessage - a.lastMessage): stable, descending.
RECURSIVE InsertSession(_, _)
InsertSession(x, s) ==
  IF s = <<>> THEN <<x>>
  ELSE IF x.lastMessage > Head(s).lastMessage THEN <<x>> \o s
  ELSE <<Head(s)>> \o InsertSession(x, Tail(s))

RECURSIVE SortSessions(_)
SortSessions(s) ==
  IF s = <<>> THEN <<>>
  ELSE InsertSession(s[Len(s)], SortSessions(SubSeq(s, 1, Len(s) - 1)))

\* The timestamp lies in the local calendar day that begins at todayStart.
IsTodayBounded(entry, todayStart) ==
  entry.timestamp >= todayStart /\ entry.timestamp < todayStart + TimestampsPerDay

\* Line 319: if (entry.timestamp >= todayStart).
IsToday(entry, todayStart) == entry.timestamp >= todayStart

OfToday(entries, todayStart) == SelectSeq(entries, LAMBDA e : IsToday(e, todayStart))

\* The keys of hourlyMap in insertion order.
RECURSIVE HourOrder(_, _)
HourOrder(entries, seen) ==
  IF entries = <<>> THEN <<>>
  ELSE IF GetHours(Head(entries).timestamp) \in seen
       THEN HourOrder(Tail(entries), seen)
       ELSE << GetHours(Head(entries).timestamp) >>
              \o HourOrder(Tail(entries), seen \cup { GetHours(Head(entries).timestamp) })

OfHour(entries, hour) == SelectSeq(entries, LAMBDA e : GetHours(e.timestamp) = hour)

TokenCount(usage) ==
  usage.inputTokens + usage.outputTokens + usage.cacheCreationTokens + usage.cacheReadTokens

\* Lines 320-328 and 419-425: the summary of one hour.
HourlySummary(hour, hourEntries) ==
  [hour |-> hour,
   cost |-> SumCost(hourEntries),
   tokens |-> TokenCount(SumTokens(hourEntries)),
   messageCount |-> Len(hourEntries)]

RECURSIVE HourlyOf(_, _)
HourlyOf(entries, hours) ==
  IF hours = <<>> THEN <<>>
  ELSE << HourlySummary(Head(hours), OfHour(entries, Head(hours))) >>
         \o HourlyOf(entries, Tail(hours))

\* hourly.sort((a, b) => a.hour - b.hour): stable, ascending.
RECURSIVE InsertHourly(_, _)
InsertHourly(x, s) ==
  IF s = <<>> THEN <<x>>
  ELSE IF x.hour < Head(s).hour THEN <<x>> \o s
  ELSE <<Head(s)>> \o InsertHourly(x, Tail(s))

RECURSIVE SortHourly(_)
SortHourly(s) ==
  IF s = <<>> THEN <<>>
  ELSE InsertHourly(s[Len(s)], SortHourly(SubSeq(s, 1, Len(s) - 1)))

\* Lines 318-329 and 417-428: today's entries by the hour.
Hourly(today) == SortHourly(HourlyOf(today, HourOrder(today, {})))

\* computeStats, run when the local day begins at todayStart.  The last
\* five fields are not fields of UsageStats: id stands for the identity of
\* the object computeStats allocates (one call for a given key at a given
\* clock value), and events, args, basis and todayStart record what it was
\* computed from.
computeStats(entries, todayStart, id, args, basis) ==
  [messageCount |-> Len(entries),
   sessions |-> SortSessions(SessionsOf(entries, SessionOrder(entries, {}))),
   daily |-> SortDaily(DailyOf(entries, DayOrder(entries, {}))),
   hourly |-> Hourly(OfToday(entries, todayStart)),
   totalCost |-> SumCost(entries),
   totalTokens |-> SumTokens(entries),
   byModel |-> [m \in { entries[i].model : i \in DOMAIN entries } |->
                  [cost |-> SumCost(OfModel(entries, m)),
                   tokens |-> SumTokens(OfModel(entries, m)),
                   displayName |-> getModelDisplayName(m)]],
   id |-> id,
   events |-> entries,
   args |-> args,
   basis |-> basis,
   todayStart |-> todayStart]

\* ------------------------------------------------------------- file system
\* Paths in the order getAllJsonlFiles (readdirSync) lists them.
PathOrder == << "/projects/a/s1.jsonl", "/projects/b/s2.jsonl" >>
Paths == Range(PathOrder)

Sonnet == "claude-3-5-sonnet-20241022"
SonnetJune == "claude-3-5-sonnet-20240620"
Opus == "claude-opus-4-20250514"

\* The contents a writer can give a file.  Versions 1 and 2 are the first
\* log before and after a streamed message was recorded a second time, with
\* a later timestamp; version 3 is the second log: records that are not
\* counted, a message at the upper range bound, one below the lower bound,
\* and a message of another session whose identifiers contain "-".
ContentLib ==
  << << Assistant("a-b", "c", 2, Sonnet, 1) >>,
     << Assistant("a-b", "c", 2, Sonnet, 1), EmptyLine,
        Assistant("a-b", "c", 4, Sonnet, 2) >>,
     << UserLine, Assistant("a", "c", 3, Sonnet, 8), MalformedLine,
        Assistant("a", "d", 1, Opus, 16), Assistant("a", "b-c", 5, Sonnet, 4) >>,
     << Assistant("s", "m1", 1, Sonnet, 1), Assistant("s", "m2", 2, SonnetJune, 2),
        Assistant("t", "m3", 3, Opus, 4) >> >>
VersionsOf(p) == IF p = PathOrder[1] THEN {1, 2} ELSE {3}

\* The lines a producer can write: two records that count (the first has a
\* million input and a million output tokens), a record of another type, a
\* line that is not JSON, an empty line, records with no token, no usage
\* block, no model and no message, and a record whose model is the name of
\* an inherited object property.  A record is known by its uuid.
Rec(type, message, uuid) ==
  JsonLine(type, message, 2, Some("s"), Some("/home/u/proj"), Some(uuid))
LineLib ==
  << Rec("assistant",
         Some(Message(Some(Usage(Some(1000000), Some(1000000), Absent, Absent)),
                      Some(Sonnet), Absent)), "k1"),
     Rec("assistant",
         Some(Message(Some(Usage(Absent, Absent, Some(3), Some(5))),
                      Some("claude-opus-4-5-experimental"), Absent)), "k2"),
     Rec("user",
         Some(Message(Some(Usage(Some(7), Some(7), Absent, Absent)),
                      Some(Sonnet), Absent)), "k3"),
     MalformedLine,
     EmptyLine,
     Rec("assistant",
         Some(Message(Some(Usage(Some(0), Absent, Some(0), Absent)),
                      Some(Sonnet), Absent)), "k6"),
     Rec("assistant", Some(Message(Absent, Some(Sonnet), Absent)), "k7"),
     Rec("assistant",
         Some(Message(Some(Usage(Some(7), Some(7), Absent, Absent)), Absent, Absent)),
         "k8"),
     Rec("assistant", Absent, "k9"),
     Rec("assistant",
         Some(Message(Some(Usage(Some(1), Absent, Absent, Absent)),
                      Some("constructor"), Absent)), "k10") >>

\* The files of at most len lines of LineLib are numbered from 0: the empty
\* file, then the files of one line, of two lines, and so on.
RECURSIVE DocCount(_)
DocCount(len) == IF len = 0 THEN 1 ELSE 1 + Len(LineLib) * DocCount(len - 1)
RECURSIVE DocOf(_)
DocOf(n) ==
  IF n = 0 THEN <<>>
  ELSE << LineLib[1 + ((n - 1) % Len(LineLib))] >> \o DocOf((n - 1) \div Len(LineLib))

\* The versions after those of ContentLib are the files of lines of LineLib.
DocVersions == (Len(ContentLib) + 1)..(Len(ContentLib) + DocCount(MaxLines))

\* readFileSync(filePath, "utf-8") split into lines: the contents of a version.
Content(version) ==
  IF version \in DOMAIN ContentLib THEN ContentLib[version]
  ELSE DocOf(version - Len(ContentLib) - 1)

\* The (since, until) pairs the callers ask for: all time, and a closed range.
QueryArgs == { <<Absent, Absent>>, <<Some(2), Some(3)>> }

STATS_CACHE_TTL == 4000
\* The clock's step: two steps are more than the time-to-live, one is less.
TickMs == STATS_CACHE_TTL \div 2 + 1
InitMtime == TickMs \div 2

\* The program starts early on 2025-01-01, or one clock step before the
\* midnight that ends that day.
DayMs == TimestampsPerDay * 6 * 60 * 60 * 1000
ClockStarts == { TickMs, DayMs - TickMs }
StartOf(clock) == IF clock >= DayMs - TickMs THEN DayMs - TickMs ELSE TickMs

VARIABLES
  now,              \* Date.now()
  files,            \* the .jsonl files under PROJECTS_DIR: path -> [mtime, version]
  lastMtime,        \* the greatest mtime a writer has given any file
  changes,          \* how many times the file system has changed
  fileCache,        \* Map path -> [mtime, entries]
  allEntriesCache,  \* null (<<>>) or << [mtime, entries] >>
  statsCache,       \* Map cacheKey -> [timestamp, stats]
  last,             \* what the latest parseAllUsage call did and returned
  hist,             \* per cacheKey, the latest call: when, what it returned,
                    \* the files as it began and as it returned
  calls,            \* how many times parseAllUsage has been called
  readCount,        \* per path, reads of its contents since its mtime last changed
  scan,             \* the load loop of parseAllUsage when it is run step by step
  loads,            \* what the parseJsonlFile calls of the latest load loop did
  priceCall,        \* a call of calculateCost: its arguments and what it returned
  app,              \* the state of the App component (useState), and counters
  pending,          \* the callbacks waiting for the event loop, oldest first
  running,          \* the loadData activations on the call stack, newest first
  out               \* what a run in --json mode printed and how it exited

vars == << now, files, lastMtime, changes, fileCache, allEntriesCache, statsCache,
           last, hist, calls, readCount, scan, loads, priceCall, app, pending, running,
           out >>

\* The variables of the query engine, of the step-by-step load loop and of
\* the pricing calls.
queryVars == << allEntriesCache, statsCache, last, hist, calls, readCount >>
loopVars == << scan, loads >>
appVars == << app, pending, running >>

MapSet(m, k, v) == [x \in (DOMAIN m) \cup {k} |-> IF x = k THEN v ELSE m[x]]
MapDelete(m, k) == [x \in (DOMAIN m) \ {k} |-> m[x]]
EmptyMap == [x \in {} |-> 0]

\* No dashboard: the program runs in --json mode.
NoApp == [mounted |-> FALSE]

NoLoads == [n |-> 0, discovered |-> <<>>, calls |-> <<>>, result |-> <<>>]

\* The state after the module is loaded, the clock reading clock.
InitAt(clock) ==
  /\ now = clock
  /\ files = [p \in {PathOrder[1]} |-> [mtime |-> InitMtime, version |-> 1]]
  /\ lastMtime = InitMtime
  /\ changes = 0
  /\ fileCache = EmptyMap
  /\ allEntriesCache = <<>>
  /\ statsCache = EmptyMap
  /\ last = <<>>
  /\ hist = EmptyMap
  /\ calls = 0
  /\ readCount = [p \in Paths |-> 0]
  /\ scan = <<>>
  /\ loads = NoLoads
  /\ priceCall = <<>>
  /\ app = NoApp
  /\ pending = <<>>
  /\ running = <<>>
  /\ out = <<>>

\* The program starts early on 2025-01-01.
Init == InitAt(TickMs)

\* ----------------------------------------------------------------- parsing
\* The catch block that leaves the File Cache as it is.
EvictNothing(fc, filePath) == fc

\* Lines 147-150: fileCache.delete(filePath) in the catch block.
Evict(fc, filePath) == MapDelete(fc, filePath)

\* Lines 144-146: cache the result and return it.
CacheResult(filePath, fc, mtime, entries) ==
  [entries |-> entries,
   fileCache |-> MapSet(fc, filePath, [mtime |-> mtime, entries |-> entries]),
   read |-> TRUE]

\* parseJsonlFile without the look at the File Cache (lines 84-88 left out).
parseJsonlFileUncached(filePath, fs, fc) ==
  IF filePath \notin DOMAIN fs
  THEN [entries |-> <<>>, fileCache |-> Evict(fc, filePath), read |-> FALSE]
  ELSE CacheResult(filePath, fc, fs[filePath].mtime,
                   ParseLines(Content(fs[filePath].version), filePath))

\* parseJsonlFile against the file system fs and the File Cache fc: the
\* entries it returns, the File Cache it leaves, and whether it read the
\* file's contents.
parseJsonlFile(filePath, fs, fc) ==
  IF filePath \notin DOMAIN fs
  THEN \* statSync throws: the catch block
       [entries |-> <<>>, fileCache |-> Evict(fc, filePath), read |-> FALSE]
  ELSE IF filePath \in DOMAIN fc /\ fc[filePath].mtime = fs[filePath].mtime
       THEN [entries |-> fc[filePath].entries, fileCache |-> fc, read |-> FALSE]
       ELSE CacheResult(filePath, fc, fs[filePath].mtime,
                        ParseLines(Content(fs[filePath].version), filePath))

getAllJsonlFiles(fs) == SelectSeq(PathOrder, LAMBDA p : p \in DOMAIN fs)

RECURSIVE MaxMtimeLoop(_, _, _)
MaxMtimeLoop(fileList, fs, maxMtime) ==
  IF fileList = <<>> THEN maxMtime
  ELSE IF Head(fileList) \in DOMAIN fs /\ fs[Head(fileList)].mtime > maxMtime
       THEN MaxMtimeLoop(Tail(fileList), fs, fs[Head(fileList)].mtime)
       ELSE MaxMtimeLoop(Tail(fileList), fs, maxMtime)

getMaxMtime(fileList, fs) == MaxMtimeLoop(fileList, fs, 0)

\* Lines 219-224: the loop that loads every discovered file.
RECURSIVE LoadLoop(_, _, _, _, _)
LoadStep(fileList, fs, allEntries, read, r) ==
  LoadLoop(Tail(fileList), fs, r.fileCache, allEntries \o r.entries,
           IF r.read THEN read \cup {Head(fileList)} ELSE read)

LoadLoop(fileList, fs, fc, allEntries, read) ==
  IF fileList = <<>> THEN [allEntries |-> allEntries, fileCache |-> fc, read |-> read]
  ELSE LoadStep(fileList, fs, allEntries, read, parseJsonlFile(Head(fileList), fs, fc))

\* ------------------------------------------------------------ parseAllUsage
\* const cacheKey = `${since?.getTime() ?? "all"}-${until?.getTime() ?? "all"}`
BoundStr(bound) == IF IsPresent(bound) THEN NumStr(bound[1]) ELSE "all"
CacheKey(since, until) == BoundStr(since) \o "-" \o BoundStr(until)

\* IsFresh with the comparison turned round.
IsFreshInverted(cached, t) ==
  IsPresent(cached) /\ (t - cached[1].timestamp) > STATS_CACHE_TTL

\* cached && (now - cached.timestamp) < STATS_CACHE_TTL
IsFresh(cached, t) == IsPresent(cached) /\ (t - cached[1].timestamp) < STATS_CACHE_TTL

\* FilesUnchanged with > for >=.
FilesUnchangedStrict(cached, allCache, maxMtime) ==
  IsPresent(cached) /\ IsPresent(allCache) /\ allCache[1].mtime > maxMtime

\* cached && allEntriesCache && allEntriesCache.mtime >= maxMtime
FilesUnchanged(cached, allCache, maxMtime) ==
  IsPresent(cached) /\ IsPresent(allCache) /\ allCache[1].mtime >= maxMtime

\* The paths whose File Cache entry carries the file's current mtime.
CachedCurrent(fs, fc) == { p \in DOMAIN fs \cap DOMAIN fc : fc[p].mtime = fs[p].mtime }

\* What is recorded of every call, whichever way it returns.
CallBase(since, until, cacheKey, cached) ==
  [since |-> since, until |-> until, key |-> cacheKey, at |-> now, files |-> files,
   stampBefore |-> IF IsPresent(cached) THEN <<cached[1].timestamp>> ELSE <<>>,
   prev |-> IF cacheKey \in DOMAIN hist THEN <<hist[cacheKey]>> ELSE <<>>,
   cachedBefore |-> CachedCurrent(files, fileCache)]

\* Lines 205-207: the entry is younger than the time-to-live.
ReturnCached(base, cached) ==
  [fileCache |-> fileCache, allEntriesCache |-> allEntriesCache, statsCache |-> statsCache,
   call |-> base @@ [path |-> "ttl", ret |-> cached[1].stats,
                     discovered |-> FALSE, statted |-> {}, read |-> {},
                     aggregated |-> FALSE, corpus |-> <<>>, fed |-> <<>>]]

\* Lines 213-217: "files haven't changed, but cache expired".
RefreshTimestamp(base, cacheKey, cached, fileList) ==
  [fileCache |-> fileCache, allEntriesCache |-> allEntriesCache,
   statsCache |-> MapSet(statsCache, cacheKey,
                         [timestamp |-> now, stats |-> cached[1].stats]),
   call |-> base @@ [path |-> "reuse", ret |-> cached[1].stats,
                     discovered |-> TRUE, statted |-> Range(fileList), read |-> {},
                     aggregated |-> FALSE, corpus |-> <<>>, fed |-> <<>>]]

\* Lines 226-227 and 256-261.  filtered.sort(...) sorts allEntries itself
\* when no bound is given (filtered is then the same array).
StoreAndReturn(base, since, until, cacheKey, fileList, maxMtime, loaded, filtered, stats) ==
  [fileCache |-> loaded.fileCache,
   allEntriesCache |->
     << [mtime |-> maxMtime,
         entries |-> IF since = <<>> /\ until = <<>>
                     THEN SortByTimestamp(loaded.allEntries, -1)
                     ELSE loaded.allEntries] >>,
   statsCache |-> MapSet(statsCache, cacheKey, [timestamp |-> now, stats |-> stats]),
   call |-> base @@ [path |-> "compute", ret |-> stats,
                     discovered |-> TRUE, statted |-> Range(fileList),
                     read |-> loaded.read, aggregated |-> TRUE,
                     corpus |-> loaded.allEntries, fed |-> filtered]]

\* Lines 238-256: deduplicate the filtered entries and aggregate them.
Aggregate(base, since, until, cacheKey, fileList, maxMtime, loaded, filtered) ==
  StoreAndReturn(base, since, until, cacheKey, fileList, maxMtime, loaded, filtered,
                 computeStats(Deduplicate(filtered), TodayStart(now), <<cacheKey, now>>,
                              <<since, until>>, files))

\* Lines 229-236: filter the loaded entries by the date range.
FilterLoaded(base, since, until, cacheKey, fileList, maxMtime, loaded) ==
  Aggregate(base, since, until, cacheKey, fileList, maxMtime, loaded,
            FilterRange(loaded.allEntries, since, until))

\* Lines 212-224: reuse the snapshot or load every file.
CheckFiles(base, since, until, cacheKey, cached, fileList, maxMtime) ==
  IF FilesUnchanged(cached, allEntriesCache, maxMtime)
  THEN RefreshTimestamp(base, cacheKey, cached, fileList)
  ELSE FilterLoaded(base, since, until, cacheKey, fileList, maxMtime,
                    LoadLoop(fileList, files, fileCache, <<>>, {}))

\* Lines 209-212: discover the files and their greatest mtime.
Discover(base, since, until, cacheKey, cached, fileList) ==
  CheckFiles(base, since, until, cacheKey, cached, fileList, getMaxMtime(fileList, files))

\* Lines 204-209.
LookUp(since, until, cacheKey, cached, base) ==
  IF IsFresh(cached, now)
  THEN ReturnCached(base, cached)
  ELSE Discover(base, since, until, cacheKey, cached, getAllJsonlFiles(files))

CachedEntry(cacheKey) ==
  IF cacheKey \in DOMAIN statsCache THEN <<statsCache[cacheKey]>> ELSE <<>>

WithKey(since, until, cacheKey) ==
  LookUp(since, until, cacheKey, CachedEntry(cacheKey),
         CallBase(since, until, cacheKey, CachedEntry(cacheKey)))

\* One call of parseAllUsage(since, until) from the current state: the
\* caches it leaves and a record of what it did and returned.
ParseAllUsage(since, until) == WithKey(since, until, CacheKey(since, until))

Bump(n) == IF n < 2 THEN n + 1 ELSE n

\* ----------------------------------------------------------------- actions
\* The state a call leaves, r being what ParseAllUsage worked out.
Returned(r) ==
  /\ fileCache' = r.fileCache
  /\ allEntriesCache' = r.allEntriesCache
  /\ statsCache' = r.statsCache
  /\ last' = << r.call >>
  /\ hist' = MapSet(hist, r.call.key,
                    [at |-> now, ret |-> r.call.ret, files |-> files,
                     began |-> r.call.files])
  /\ readCount' = [p \in Paths |-> IF p \in r.call.read THEN Bump(readCount[p])
                                   ELSE readCount[p]]

\* A caller (the dashboard's loadData, or the --json mode) queries a range.
Query(since, until) ==
  /\ calls < MaxCalls
  /\ calls' = calls + 1
  /\ Returned(ParseAllUsage(since, until))
  /\ UNCHANGED << now, files, lastMtime, changes, loopVars, priceCall, appVars, out >>

\* The external producer creates a file or replaces a file's contents; the
\* file's mtime becomes the current time, later than every earlier mtime.
WriteFile(p, v) ==
  /\ v \in VersionsOf(p)
  /\ changes < MaxChanges
  /\ now > lastMtime
  /\ p \in DOMAIN files => files[p].version # v
  /\ files' = MapSet(files, p, [mtime |-> now, version |-> v])
  /\ lastMtime' = now
  /\ changes' = changes + 1
  /\ readCount' = [readCount EXCEPT ![p] = 0]
  /\ UNCHANGED << now, fileCache, allEntriesCache, statsCache, last, hist, calls,
                  loopVars, priceCall, appVars, out >>

\* A file is deleted (or moved out of the projects directory).
DeleteFile(p) ==
  /\ changes < MaxChanges
  /\ p \in DOMAIN files
  /\ files' = MapDelete(files, p)
  /\ changes' = changes + 1
  /\ readCount' = [readCount EXCEPT ![p] = 0]
  /\ UNCHANGED << now, lastMtime, fileCache, allEntriesCache, statsCache, last, hist,
                  calls, loopVars, priceCall, appVars, out >>

\* Time passes.
Tick ==
  /\ now + TickMs <= StartOf(now) + TickMs * MaxTicks
  /\ now' = now + TickMs
  /\ UNCHANGED << files, lastMtime, changes, fileCache, allEntriesCache, statsCache,
                  last, hist, calls, readCount, loopVars, priceCall, appVars, out >>

Next ==
  \/ \E a \in QueryArgs : Query(a[1], a[2])
  \/ \E p \in Paths, v \in DOMAIN ContentLib : WriteFile(p, v)
  \/ \E p \in Paths : DeleteFile(p)
  \/ Tick

Spec == Init /\ [][Next]_vars

\* The same program started one clock step before the midnight that ends
\* 2025-01-01.
MidnightInit == InitAt(DayMs - TickMs)

MidnightSpec == MidnightInit /\ [][Next]_vars

\* ------------------------------------------- the load loop, step by step
\* The loop of lines 219-224 taken one file-system call at a time: the
\* statSync of parseJsonlFile is one step and its readFileSync another, and
\* the writer may change the files before, between and after them.
\* scan is <<>> when no loop runs, else one record: the files still to
\* load, the file as statSync saw it (when the read is still to come) and
\* the entries gathered so far.

\* Lines 209 and 219-220: discover the files and enter the loop.
StartLoad ==
  /\ scan = <<>>
  /\ loads.n < MaxLoads
  /\ scan' = << [todo |-> getAllJsonlFiles(files), stat |-> <<>>, allEntries |-> <<>>] >>
  /\ loads' = [n |-> loads.n + 1, discovered |-> getAllJsonlFiles(files),
                calls |-> <<>>, result |-> <<>>]
  /\ UNCHANGED << now, files, lastMtime, changes, fileCache, queryVars, priceCall, appVars, out >>

\* parseJsonlFile(filePath) returns ret, leaving the File Cache fc: the loop
\* pushes the entries and goes on to the next file.  What the call saw
\* and did is kept in loads.
ReturnFromParse(filePath, outcome, ret, statFile, readFile, fc) ==
  /\ fileCache' = fc
  /\ scan' = << [scan[1] EXCEPT !.todo = Tail(@), !.stat = <<>>,
                                 !.allEntries = @ \o ret] >>
  /\ loads' = [loads EXCEPT !.calls =
                 Append(@, [path |-> filePath, outcome |-> outcome, ret |-> ret,
                            statFile |-> statFile, readFile |-> readFile,
                            cacheBefore |-> fileCache, cacheAfter |-> fc])]

\* Lines 82-88: statSync and the look at the File Cache; statSync throws
\* when the file is gone (lines 147-150).
StatPath(filePath) ==
  IF filePath \notin DOMAIN files
  THEN ReturnFromParse(filePath, "failed", <<>>, <<>>, <<>>, Evict(fileCache, filePath))
  ELSE IF filePath \in CachedCurrent(files, fileCache)
       THEN ReturnFromParse(filePath, "hit", fileCache[filePath].entries,
                            << files[filePath] >>, <<>>, fileCache)
       ELSE /\ scan' = << [scan[1] EXCEPT !.stat = << files[filePath] >>] >>
            /\ UNCHANGED << fileCache, loads >>

StatFile ==
  /\ scan # <<>>
  /\ scan[1].todo # <<>>
  /\ scan[1].stat = <<>>
  /\ StatPath(Head(scan[1].todo))
  /\ UNCHANGED << now, files, lastMtime, changes, queryVars, priceCall, appVars, out >>

\* Lines 90-146: readFileSync, the loop over the lines and the caching of
\* the result under the mtime statSync returned; readFileSync throws when
\* the file is gone (lines 147-150).
ParsedPath(filePath, statFile, r) ==
  ReturnFromParse(filePath, "parsed", r.entries, statFile, << files[filePath] >>, r.fileCache)

ReadPath(filePath, statFile) ==
  IF filePath \notin DOMAIN files
  THEN ReturnFromParse(filePath, "failed", <<>>, statFile, <<>>,
                       Evict(fileCache, filePath))
  ELSE ParsedPath(filePath, statFile,
                  CacheResult(filePath, fileCache, statFile[1].mtime,
                              ParseLines(Content(files[filePath].version), filePath)))

ReadFile ==
  /\ scan # <<>>
  /\ scan[1].stat # <<>>
  /\ ReadPath(Head(scan[1].todo), scan[1].stat)
  /\ UNCHANGED << now, files, lastMtime, changes, queryVars, priceCall, appVars, out >>

\* The loop has loaded every discovered file: allEntries is complete.
FinishLoad ==
  /\ scan # <<>>
  /\ scan[1].todo = <<>>
  /\ scan' = <<>>
  /\ loads' = [loads EXCEPT !.result = << scan[1].allEntries >>]
  /\ UNCHANGED << now, files, lastMtime, changes, fileCache, queryVars, priceCall, appVars, out >>

\* The variables the load loop does not touch, as the program starts.
QueryIdle ==
  /\ now = TickMs
  /\ lastMtime = InitMtime
  /\ changes = 0
  /\ fileCache = EmptyMap
  /\ allEntriesCache = <<>>
  /\ statsCache = EmptyMap
  /\ last = <<>>
  /\ hist = EmptyMap
  /\ calls = 0
  /\ readCount = [p \in Paths |-> 0]
  /\ scan = <<>>
  /\ loads = NoLoads
  /\ priceCall = <<>>
  /\ app = NoApp
  /\ pending = <<>>
  /\ running = <<>>
  /\ out = <<>>

\* One file, of any lines of LineLib, that no writer touches.
ParseInit ==
  /\ files \in { [p \in {PathOrder[1]} |-> [mtime |-> InitMtime, version |-> v]] :
                   v \in DocVersions }
  /\ QueryIdle

ParseNext == StartLoad \/ StatFile \/ ReadFile \/ FinishLoad

ParseSpec == ParseInit /\ [][ParseNext]_vars

\* Two files, and a writer that rewrites and deletes them while the loop runs.
LoadInit ==
  /\ files = [p \in Paths |-> [mtime |-> InitMtime,
                               version |-> CHOOSE v \in VersionsOf(p) :
                                             \A w \in VersionsOf(p) : v <= w]]
  /\ QueryIdle

LoadNext ==
  \/ StartLoad
  \/ StatFile
  \/ ReadFile
  \/ FinishLoad
  \/ \E p \in Paths, v \in DOMAIN ContentLib : WriteFile(p, v)
  \/ \E p \in Paths : DeleteFile(p)

LoadSpec == LoadInit /\ [][LoadNext]_vars

\* ------------------------------------------- a reload pass, step by step
\* parseAllUsage with its load loop taken one file-system call at a time,
\* so that the writer may act while a call is under way.  Lines 198-217
\* (the look at the Stats Cache, the discovery of the files and
\* getMaxMtime) are one step; the clock does not advance during a call.

\* Lines 219-220: the call enters the load loop.  Its arguments, its cache
\* key, the file list of line 209 and the maxMtime of line 212 stay with
\* the loop until it stores its results.
EnterLoop(since, until, cacheKey, base, fileList, maxMtime) ==
  /\ scan' = << [todo |-> fileList, stat |-> <<>>, allEntries |-> <<>>,
                 since |-> since, until |-> until, key |-> cacheKey, base |-> base,
                 fileList |-> fileList, maxMtime |-> maxMtime] >>
  /\ loads' = [n |-> loads.n + 1, discovered |-> fileList, calls |-> <<>>,
                result |-> <<>>]
  /\ UNCHANGED << fileCache, allEntriesCache, statsCache, last, hist, readCount >>

\* Lines 204-217: return at once through the Stats Cache or through the
\* "files haven't changed" path, else load.
PassFrom(since, until, cacheKey, cached, base, fileList, maxMtime) ==
  IF IsFresh(cached, now) \/ FilesUnchanged(cached, allEntriesCache, maxMtime)
  THEN Returned(ParseAllUsage(since, until)) /\ UNCHANGED loopVars
  ELSE EnterLoop(since, until, cacheKey, base, fileList, maxMtime)

PassWithKey(since, until, cacheKey, fileList) ==
  PassFrom(since, until, cacheKey, CachedEntry(cacheKey),
           CallBase(since, until, cacheKey, CachedEntry(cacheKey)),
           fileList, getMaxMtime(fileList, files))

\* A caller calls parseAllUsage(since, until).
BeginPass(since, until) ==
  /\ scan = <<>>
  /\ calls < MaxCalls
  /\ calls' = calls + 1
  /\ PassWithKey(since, until, CacheKey(since, until), getAllJsonlFiles(files))
  /\ UNCHANGED << now, files, lastMtime, changes, priceCall, appVars, out >>

\* The paths whose contents the parseJsonlFile calls of the loop read.
PathsRead(parseCalls) ==
  { parseCalls[i].path : i \in { j \in DOMAIN parseCalls : parseCalls[j].readFile # <<>> } }

\* Lines 226-261: the loop is over; store allEntriesCache under the
\* maxMtime of line 212, filter, deduplicate, aggregate, store the
\* snapshot and return it.  The basis recorded in the snapshot is the file
\* system as the call returns, which a writer may have changed after the
\* loop read it.
EndPass ==
  /\ scan # <<>>
  /\ scan[1].todo = <<>>
  /\ Returned(FilterLoaded(scan[1].base, scan[1].since, scan[1].until, scan[1].key,
                           scan[1].fileList, scan[1].maxMtime,
                           [allEntries |-> scan[1].allEntries, fileCache |-> fileCache,
                            read |-> PathsRead(loads.calls)]))
  /\ scan' = <<>>
  /\ loads' = [loads EXCEPT !.result = << scan[1].allEntries >>]
  /\ UNCHANGED << now, files, lastMtime, changes, calls, priceCall, appVars, out >>

\* Two logs of three sessions, and nothing cached.
RaceInit ==
  /\ files = [p \in Paths |-> [mtime |-> InitMtime,
                               version |-> IF p = PathOrder[1] THEN 4 ELSE 3]]
  /\ QueryIdle

\* Callers that query all time and a range; a writer that rewrites a file
\* at any point of a call; a clock that advances between calls.
RaceNext ==
  \/ \E a \in QueryArgs : BeginPass(a[1], a[2])
  \/ StatFile
  \/ ReadFile
  \/ EndPass
  \/ \E p \in Paths, v \in DOMAIN ContentLib : p \in DOMAIN files /\ WriteFile(p, v)
  \/ scan = <<>> /\ Tick

RaceSpec == RaceInit /\ [][RaceNext]_vars

\* ------------------------------------------------------------ pricing calls
\* The model ids calculateCost is called with: the keys of the table, ids
\* that contain a key or are contained in one, ids the family rules decide,
\* ids no rule knows, and names of inherited object properties.
ModelIds ==
  { MODEL_PRICING[i].key : i \in DOMAIN MODEL_PRICING }
    \cup { "claude-opus-4-5-experimental", "Claude-Opus-4.5", "opus4.5-preview",
           "my-sonnet-4-5", "SONNET-4.5-x", "sonnet4.5", "haiku-4-5-x", "haiku-4.5",
           "Haiku4.5", "claude-opus-4-1", "opus4", "sonnet-4-x", "sonnet4",
           "x-3-5-haiku", "haiku", "opus", "sonnet-next",
           "us.claude-3-haiku-20240307-v1", "claude", "c", "gpt-4o",
           "constructor", "toString", "__proto__" }

\* The (input, output, cache-write, cache-read) token counts of a call.
TokenCounts ==
  { <<1, 0, 0, 0>>, <<0, 2, 3, 0>>, <<0, 0, 0, 5>>, <<7, 11, 13, 17>>, <<1, 1, 0, 0>> }

\* The calls: every model id with every token counts, and a million input
\* and a million output tokens of "claude-3-5-sonnet-20241022".
PriceCalls ==
  { << m, t >> : m \in ModelIds, t \in TokenCounts }
    \cup { << Sonnet, << 1000000, 1000000, 0, 0 >> >> }

PriceInit ==
  /\ priceCall \in { << [model |-> c[1], tokens |-> c[2],
                          returned |-> <<>>, pricing |-> <<>>, key |-> <<>>,
                          displayName |-> <<>>] >> : c \in PriceCalls }
  /\ now = TickMs
  /\ files = EmptyMap
  /\ lastMtime = InitMtime
  /\ changes = 0
  /\ fileCache = EmptyMap
  /\ allEntriesCache = <<>>
  /\ statsCache = EmptyMap
  /\ last = <<>>
  /\ hist = EmptyMap
  /\ calls = 0
  /\ readCount = [p \in Paths |-> 0]
  /\ scan = <<>>
  /\ loads = NoLoads
  /\ app = NoApp
  /\ pending = <<>>
  /\ running = <<>>
  /\ out = <<>>

\* calculateCost(model, inputTokens, outputTokens, cacheCreationTokens,
\* cacheReadTokens) runs; pricing is what its call of getPricing returned.
CalculateCost ==
  /\ priceCall # <<>>
  /\ priceCall[1].returned = <<>>
  /\ priceCall' =
       << [priceCall[1] EXCEPT
             !.pricing = << getPricing(priceCall[1].model) >>,
             !.key = KeyFor(priceCall[1].model, ToLowerCase(priceCall[1].model)),
             !.returned = << calculateCost(priceCall[1].model,
                                           priceCall[1].tokens[1], priceCall[1].tokens[2],
                                           priceCall[1].tokens[3], priceCall[1].tokens[4]) >>] >>
  /\ UNCHANGED << now, files, lastMtime, changes, fileCache, queryVars, loopVars, appVars, out >>

\* getModelDisplayName(model) runs, as computeStats calls it for the model
\* of an entry that calculateCost priced.
GetModelDisplayName ==
  /\ priceCall # <<>>
  /\ priceCall[1].displayName = <<>>
  /\ priceCall' = << [priceCall[1] EXCEPT
                        !.displayName = << getModelDisplayName(priceCall[1].model) >>] >>
  /\ UNCHANGED << now, files, lastMtime, changes, fileCache, queryVars, loopVars, appVars,
                  out >>

PriceNext == CalculateCost \/ GetModelDisplayName

PriceSpec == PriceInit /\ [][PriceNext]_vars

\* ------------------------------------------------------- the --json mode
\* Number.prototype.toFixed of a quotient a / b (b > 0), for two digits and
\* for one: the quotient is rounded to the nearest hundredth (tenth), a
\* half upwards.
RoundDiv(a, b) == (a + b \div 2) \div b
ToFixed2(hundredths) ==
  NumStr(hundredths \div 100) \o "." \o PadStart2(NumStr(hundredths % 100))
ToFixed1(tenths) == NumStr(tenths \div 10) \o "." \o NumStr(tenths % 10)

\* A cost is a number of units of 10^-8 dollars.
UnitsPerCent == 1000000
UnitsPerDollar == 100 * UnitsPerCent

\* formatCost: "$1.23K" from a thousand dollars, "$1.23" from a cent, and
\* cents below that (the cent sign is written c here).
formatCost(cost) ==
  IF cost \div UnitsPerDollar >= 1000
  THEN "$" \o ToFixed2(RoundDiv(cost \div 1000, UnitsPerCent * 10)) \o "K"
  ELSE IF cost >= UnitsPerCent
       THEN "$" \o ToFixed2(RoundDiv(cost, UnitsPerCent))
       ELSE ToFixed2(RoundDiv(cost, UnitsPerCent \div 100)) \o "c"

\* formatTokens
formatTokens(tokens) ==
  IF tokens >= 1000000 THEN ToFixed2(RoundDiv(tokens, 10000)) \o "M"
  ELSE IF tokens >= 1000 THEN ToFixed1(RoundDiv(tokens, 100)) \o "K"
  ELSE NumStr(tokens)

\* obj[name]: the value of a property, or undefined (<<>>).  The fields
\* id, events, args, basis and todayStart of a snapshot are not properties
\* of the UsageStats object.
Get(obj, name) == IF name \in DOMAIN obj THEN Some(obj[name]) ELSE Absent

\* value.length: a number, or the TypeError (<<>>) that reading a property
\* of undefined throws.
LengthOf(value) == IF IsPresent(value) THEN Some(Len(value[1])) ELSE Absent

\* Object.entries(stats.byModel): the keys in the order computeStats
\* created them, each model at its first entry.
RECURSIVE ModelOrder(_, _)
ModelOrder(entries, seen) ==
  IF entries = <<>> THEN <<>>
  ELSE IF Head(entries).model \in seen
       THEN ModelOrder(Tail(entries), seen)
       ELSE << Head(entries).model >>
              \o ModelOrder(Tail(entries), seen \cup { Head(entries).model })

\* Lines 521-528 of part_002: the [key, value] pair made of one model.
BreakdownEntry(data) ==
  [cost |-> formatCost(data.cost), tokens |-> formatTokens(TokenCount(data.tokens))]

\* Object.fromEntries: a later pair replaces an earlier one of the same key.
RECURSIVE FromEntries(_, _, _)
FromEntries(byModel, models, object) ==
  IF models = <<>> THEN object
  ELSE FromEntries(byModel, Tail(models),
                   MapSet(object, byModel[Head(models)].displayName,
                          BreakdownEntry(byModel[Head(models)])))

\* Lines 520-529 of part_002: the breakdown of the document.
Breakdown(stats) == FromEntries(stats.byModel, ModelOrder(stats.events, {}), EmptyMap)

\* The document of lines 512-530, given the value of stats.entries.length.
Document(stats, messages) ==
  [totalCost |-> formatCost(stats.totalCost),
   totalTokens |-> formatTokens(TokenCount(stats.totalTokens)),
   sessions |-> Len(stats.sessions),
   messages |-> messages,
   breakdown |-> Breakdown(stats)]

\* Lines 510-533 of part_002: the object literal is evaluated property by
\* property; a TypeError ends the process with exit code 1 and nothing on
\* the standard output, else the document is printed and the exit code is 0.
\* stats records the snapshot the run worked on.
JsonOutput(stats, messages) ==
  IF IsPresent(messages)
  THEN [stdout |-> << Document(stats, messages[1]) >>, exitCode |-> 0, stats |-> stats]
  ELSE [stdout |-> <<>>, exitCode |-> 1, stats |-> stats]

\* Lines 343 and 405 of App.tsx: the count the Summary panel and the "All
\* Time" card of QuickStats render, or the TypeError (<<>>).
SummaryMessages(stats) == LengthOf(Get(stats, "entries"))
QuickStatsMessages(stats) == LengthOf(Get(stats, "entries"))

\* A process is started with --json (or without a terminal): it calls
\* parseAllUsage() with its caches empty, prints and exits.
RunJson(r) ==
  /\ Returned(r)
  /\ out' = << JsonOutput(r.call.ret, LengthOf(Get(r.call.ret, "entries"))) >>

JsonMode ==
  /\ out = <<>>
  /\ calls = 0
  /\ calls' = calls + 1
  /\ RunJson(ParseAllUsage(Absent, Absent))
  /\ UNCHANGED << now, files, lastMtime, changes, loopVars, priceCall, appVars >>

\* The logs the process finds: none, one or both of the two files, in any
\* of the versions of ContentLib; the producer may go on writing.
JsonVersionsOf(p) == IF p = PathOrder[1] THEN {1, 2} ELSE {3, 4}
JsonInit ==
  /\ now \in ClockStarts
  /\ \E present \in SUBSET Paths :
       files \in { f \in [present -> [mtime : {InitMtime}, version : DOMAIN ContentLib]] :
                     \A p \in present : f[p].version \in JsonVersionsOf(p) }
  /\ lastMtime = InitMtime
  /\ changes = 0
  /\ fileCache = EmptyMap
  /\ allEntriesCache = <<>>
  /\ statsCache = EmptyMap
  /\ last = <<>>
  /\ hist = EmptyMap
  /\ calls = 0
  /\ readCount = [p \in Paths |-> 0]
  /\ scan = <<>>
  /\ loads = NoLoads
  /\ priceCall = <<>>
  /\ app = NoApp
  /\ pending = <<>>
  /\ running = <<>>
  /\ out = <<>>

JsonNext ==
  \/ JsonMode
  \/ \E p \in Paths, v \in DOMAIN ContentLib : WriteFile(p, v)
  \/ \E p \in Paths : DeleteFile(p)
  \/ Tick

JsonSpec == JsonInit /\ [][JsonNext]_vars

\* ------------------------------------------------------------ the dashboard
\* App.tsx on Node's event loop.  A timer tick or a key press is a callback
\* that waits in pending; the event loop calls the oldest one when the call
\* stack is empty.  loadData is a synchronous function (no await, no
\* callback): its two parseAllUsage calls are two steps here, and callbacks
\* may arrive before, between and after them.
REFRESH_INTERVAL == 5

\* 2025-01-01 is a Wednesday: the week began three days before.
StartOfWeek(t) ==
  StartOfDay(t) - (((t \div TimestampsPerDay) + 3) % 7) * TimestampsPerDay
\* January 2025.
StartOfMonth(t) == 0
EndOfMonth(t) == 31 * TimestampsPerDay - 1

\* Lines 37-58 of App.tsx: the bounds of a time range.
RangeArgs(timeRange, t) ==
  CASE timeRange = "today" -> << Some(StartOfDay(t)), Absent >>
    [] timeRange = "week" -> << Some(StartOfWeek(t)), Absent >>
    [] timeRange = "month" -> << Some(StartOfMonth(t)), Some(EndOfMonth(t)) >>
    [] OTHER -> << Absent, Absent >>

\* The keys the model presses, and the range a number key selects.
Keys == { "r", "1", "4" }
RangeOfKey(key) ==
  CASE key = "1" -> "today" [] key = "2" -> "week" [] key = "3" -> "month"
    [] key = "4" -> "all" [] OTHER -> "none"

\* Lines 19-28 of App.tsx: the state as useState initialises it; three
\* counters: the callbacks that arrived, the loadData passes started and
\* those completed; the callback that started the latest pass, and what
\* the first query of that pass did.
Mounted(countdown) ==
  [mounted |-> TRUE, timeRange |-> "today", countdown |-> countdown,
   stats |-> <<>>, allTimeStats |-> <<>>, loading |-> TRUE,
   focusedBlock |-> "sessions", sessionsIndex |-> 0, dailyIndex |-> 0,
   arrived |-> 0, started |-> 0, completed |-> 0, trigger |-> "", rangeCall |-> <<>>]

\* The component is mounted with its state as useState initialises it, the
\* mount effect (loadData) waiting; countdown is 5 at the mount and 1 four
\* timer ticks later.
AppInit ==
  /\ app \in { Mounted(c) : c \in { 1, REFRESH_INTERVAL } }
  /\ pending = << [kind |-> "effect", during |-> 0] >>
  /\ running = <<>>
  /\ out = <<>>
  /\ now = TickMs
  /\ files = [p \in {PathOrder[1]} |-> [mtime |-> InitMtime, version |-> 1]]
  /\ lastMtime = InitMtime
  /\ changes = 0
  /\ fileCache = EmptyMap
  /\ allEntriesCache = <<>>
  /\ statsCache = EmptyMap
  /\ last = <<>>
  /\ hist = EmptyMap
  /\ calls = 0
  /\ readCount = [p \in Paths |-> 0]
  /\ scan = <<>>
  /\ loads = NoLoads
  /\ priceCall = <<>>

\* The event loop calls every callback whatever is on the call stack.
AnyTime == TRUE

\* The event loop calls a callback only when the call stack is empty.
CallStackEmpty == running = <<>>

\* setInterval's timer fires, or a key is pressed: the callback is queued.
\* during is the number of the loadData pass running at that moment, or 0.
Arrive(kind) ==
  /\ app.arrived < MaxEvents
  /\ pending' = Append(pending, [kind |-> kind,
                                 during |-> IF running = <<>> THEN 0 ELSE app.started])
  /\ app' = [app EXCEPT !.arrived = @ + 1]
  /\ UNCHANGED << now, files, lastMtime, changes, fileCache, queryVars, loopVars,
                  priceCall, running, out >>

\* loadData is entered: lines 33-34.
EnterLoadData(e, countdown, rest) ==
  /\ running' = << [range |-> app.timeRange, step |-> "range", during |-> e.during,
                    pass |-> app.started + 1] >> \o running
  /\ app' = [app EXCEPT !.loading = TRUE, !.countdown = countdown, !.started = @ + 1,
                        !.trigger = e.kind, !.rangeCall = <<>>]
  /\ pending' = rest

\* Math.max and Math.min.
Max(a, b) == IF a >= b THEN a ELSE b
Min(a, b) == IF a <= b THEN a ELSE b

\* Lines 127 and 130 of App.tsx: (stats?.sessions.length || 1) - 1, and the
\* same of stats.daily.
MaxIndex(field) ==
  IF app.stats = <<>> \/ Len(app.stats[1][field]) = 0 THEN 0
  ELSE Len(app.stats[1][field]) - 1

\* Lines 118-124 of App.tsx: the up arrow.
UpArrow ==
  IF app.focusedBlock = "sessions"
  THEN [app EXCEPT !.sessionsIndex = Max(0, @ - 1)]
  ELSE [app EXCEPT !.dailyIndex = Max(0, @ - 1)]

\* Lines 125-133 of App.tsx: the down arrow.
DownArrow ==
  IF app.focusedBlock = "sessions"
  THEN [app EXCEPT !.sessionsIndex = Min(MaxIndex("sessions"), @ + 1)]
  ELSE [app EXCEPT !.dailyIndex = Min(MaxIndex("daily"), @ + 1)]

\* Lines 81-90, 93-134 and 75-77 of App.tsx: the timer's callback, the key
\* handler and the effect that follows a change of timeRange.
Handle(e, rest) ==
  CASE e.kind = "tick" ->
         IF app.countdown <= 1
         THEN EnterLoadData(e, REFRESH_INTERVAL, rest)
         ELSE /\ app' = [app EXCEPT !.countdown = @ - 1]
              /\ pending' = rest
              /\ UNCHANGED running
    [] e.kind = "r" -> EnterLoadData(e, REFRESH_INTERVAL, rest)
    [] e.kind = "effect" -> EnterLoadData(e, app.countdown, rest)
    [] e.kind = "tab" ->
         /\ app' = [app EXCEPT !.focusedBlock =
                                 IF @ = "sessions" THEN "daily" ELSE "sessions"]
         /\ pending' = rest
         /\ UNCHANGED running
    [] e.kind = "up" ->
         /\ app' = UpArrow
         /\ pending' = rest
         /\ UNCHANGED running
    [] e.kind = "down" ->
         /\ app' = DownArrow
         /\ pending' = rest
         /\ UNCHANGED running
    [] OTHER ->
         /\ app' = [app EXCEPT !.timeRange = RangeOfKey(e.kind)]
         /\ pending' = IF app.timeRange = RangeOfKey(e.kind) THEN rest
                       ELSE << [kind |-> "effect", during |-> e.during] >> \o rest
         /\ UNCHANGED running

Dispatch ==
  /\ CallStackEmpty
  /\ pending # <<>>
  /\ Handle(Head(pending), Tail(pending))
  /\ UNCHANGED << now, files, lastMtime, changes, fileCache, queryVars, loopVars, priceCall, out >>

\* Lines 60-61 of App.tsx: parseAllUsage(since, until) and setStats(data).
SetStats(r) ==
  /\ Returned(r)
  /\ app' = [app EXCEPT !.stats = << r.call.ret >>, !.rangeCall = << r.call >>]

LoadRange ==
  /\ running # <<>>
  /\ running[1].step = "range"
  /\ SetStats(ParseAllUsage(RangeArgs(running[1].range, TimestampOf(now))[1],
                            RangeArgs(running[1].range, TimestampOf(now))[2]))
  /\ calls' = calls + 1
  /\ running' = << [running[1] EXCEPT !.step = "all"] >> \o Tail(running)
  /\ UNCHANGED << now, files, lastMtime, changes, loopVars, priceCall, pending, out >>

\* Lines 64-72 of App.tsx: parseAllUsage(), setAllTimeStats(allData),
\* setLastRefresh and setLoading(false); loadData returns.
SetAllTimeStats(r) ==
  /\ Returned(r)
  /\ app' = [app EXCEPT !.allTimeStats = << r.call.ret >>, !.loading = FALSE,
                        !.completed = @ + 1]

LoadAll ==
  /\ running # <<>>
  /\ running[1].step = "all"
  /\ SetAllTimeStats(ParseAllUsage(Absent, Absent))
  /\ calls' = calls + 1
  /\ running' = Tail(running)
  /\ UNCHANGED << now, files, lastMtime, changes, loopVars, priceCall, pending, out >>

AppNext ==
  \/ Arrive("tick")
  \/ \E key \in Keys : Arrive(key)
  \/ Dispatch
  \/ LoadRange
  \/ LoadAll

AppSpec == AppInit /\ [][AppNext]_vars

\* The dashboard is started just after midnight of 2025-01-02 on two logs,
\* of three sessions, one of them with a message of that day; the user
\* moves in the lists, switches between them, changes the range and
\* refreshes.
NavKeys == { "up", "down", "tab", "r", "1", "4" }
NavInit ==
  /\ app = Mounted(REFRESH_INTERVAL)
  /\ pending = << [kind |-> "effect", during |-> 0] >>
  /\ running = <<>>
  /\ out = <<>>
  /\ now = DayMs + TickMs
  /\ files = [p \in Paths |-> [mtime |-> InitMtime,
                               version |-> IF p = PathOrder[1] THEN 2 ELSE 4]]
  /\ lastMtime = InitMtime
  /\ changes = 0
  /\ fileCache = EmptyMap
  /\ allEntriesCache = <<>>
  /\ statsCache = EmptyMap
  /\ last = <<>>
  /\ hist = EmptyMap
  /\ calls = 0
  /\ readCount = [p \in Paths |-> 0]
  /\ scan = <<>>
  /\ loads = NoLoads
  /\ priceCall = <<>>

NavNext ==
  \/ \E key \in NavKeys : Arrive(key)
  \/ Dispatch
  \/ LoadRange
  \/ LoadAll

NavSpec == NavInit /\ [][NavNext]_vars

\* The dashboard beside the producer of the logs: the timer ticks and the
\* user selects the week, the month or all time while the dashboard is
\* idle, the producer rewrites the first log, and time passes between the
\* passes (a pass takes less than a step of the clock).
RangeKeys == { "2", "3", "4" }
Idle == running = <<>> /\ pending = <<>>
FreshNext ==
  \/ Idle /\ Arrive("tick")
  \/ \E key \in RangeKeys : Idle /\ Arrive(key)
  \/ Dispatch
  \/ LoadRange
  \/ LoadAll
  \/ \E v \in DOMAIN ContentLib : WriteFile(PathOrder[1], v)
  \/ running = <<>> /\ Tick

FreshSpec == AppInit /\ [][FreshNext]_vars

\* ============================================================== properties
\* The latest call, once there has been one.
Called == last # <<>>
L == last[1]

SameContents(fs1, fs2) ==
  /\ DOMAIN fs1 = DOMAIN fs2
  /\ \A p \in DOMAIN fs1 : fs1[p].version = fs2[p].version

\* The files that exist at both calls with another mtime and other contents.
ModifiedSince(before, after) ==
  { p \in DOMAIN before \cap DOMAIN after :
      /\ before[p].mtime # after[p].mtime
      /\ before[p].version # after[p].version }

\* The entry the call found was stamped more than / less than the
\* time-to-live before the call.
StampedLongAgo == L.stampBefore # <<>> /\ L.at - L.stampBefore[1] > STATS_CACHE_TTL
StampedRecently == L.stampBefore # <<>> /\ L.at - L.stampBefore[1] < STATS_CACHE_TTL
Expired == L.stampBefore # <<>> /\ L.at - L.stampBefore[1] >= STATS_CACHE_TTL

\* C1 (as claimed): if a file's content and mtime changed between two calls
\* with one key and the second call comes more than STATS_CACHE_TTL after
\* the entry was last stamped, the second call returns a snapshot computed
\* from the file's new content.
C1_InvalidationAsClaimed ==
  (Called /\ L.prev # <<>> /\ StampedLongAgo) =>
    \A p \in ModifiedSince(L.prev[1].files, L.files) :
      p \in DOMAIN L.ret.basis /\ L.ret.basis[p] = L.files[p]

\* C2 (as claimed): whenever a call returns through the "files haven't
\* changed" path, the discovered files and their contents are those the
\* returned snapshot was computed from.
C2_ReuseSoundAsClaimed ==
  (Called /\ L.path = "reuse") => SameContents(L.ret.basis, L.files)

\* What a call does when it returns the cached snapshot at once.
DidNoWork ==
  /\ ~L.discovered
  /\ L.statted = {}
  /\ L.read = {}
  /\ ~L.aggregated

\* C3 (as claimed): two calls with one key less than STATS_CACHE_TTL apart,
\* with no file change between them, return the same snapshot object, and
\* the second discovers, stats, reads and aggregates nothing.
C3_IdempotentAsClaimed ==
  (/\ Called
   /\ L.prev # <<>>
   /\ L.at - L.prev[1].at < STATS_CACHE_TTL
   /\ L.prev[1].files = L.files)
  => (L.ret = L.prev[1].ret /\ DidNoWork)

\* C3 (amended): a call made less than STATS_CACHE_TTL after the key's
\* entry was last stamped (by the call that computed or re-stamped it)
\* returns the snapshot object the preceding call with that key returned,
\* and discovers, stats, reads and aggregates nothing.
C3_IdempotentWithinStamp ==
  (Called /\ StampedRecently) =>
    (L.prev # <<>> /\ L.ret = L.prev[1].ret /\ L.path = "ttl" /\ DidNoWork)

\* A second call one clock step after the call that computed the snapshot.
C3_Witness ==
  /\ Called
  /\ StampedRecently
  /\ L.at > L.stampBefore[1]
  /\ L.path = "ttl"
  /\ L.ret.id = << L.key, L.stampBefore[1] >>

\* C4: a call reads a file's contents only when the File Cache had no
\* entry with the file's current mtime, and a file is read at most once
\* for as long as its mtime stays the same.
C4_NoRereading ==
  /\ Called => L.read \cap L.cachedBefore = {}
  /\ \A p \in Paths : readCount[p] <= 1

\* A reload that took one file from the File Cache and read another.
C4_Witness ==
  /\ Called
  /\ L.path = "compute"
  /\ L.cachedBefore # {}
  /\ L.read # {}
  /\ \E p \in DOMAIN L.files : p \notin L.read /\ readCount[p] = 1

PairOf(e) == << e.sessionId, e.messageId >>
WithPair(entries, pair) == { i \in DOMAIN entries : PairOf(entries[i]) = pair }

\* C5 (as claimed): when the entries fed to the deduplication hold two or
\* more entries of one (sessionId, messageId) with different timestamps,
\* exactly one of them is aggregated: the one with the greatest timestamp.
C5_DedupLawAsClaimed ==
  (Called /\ L.path = "compute") =>
    \A i, j \in DOMAIN L.fed :
      (PairOf(L.fed[i]) = PairOf(L.fed[j]) /\ L.fed[i].timestamp # L.fed[j].timestamp)
      => /\ Cardinality(WithPair(L.ret.events, PairOf(L.fed[i]))) = 1
         /\ \A k \in WithPair(L.ret.events, PairOf(L.fed[i])) :
              /\ L.ret.events[k] \in Range(L.fed)
              /\ \A n \in WithPair(L.fed, PairOf(L.fed[i])) :
                   L.fed[n].timestamp <= L.ret.events[k].timestamp

\* C6 (as claimed): the deduplicated list holds exactly one entry for every
\* (sessionId, messageId) pair of its input.
C6_DedupByPairAsClaimed ==
  (Called /\ L.path = "compute") =>
    /\ \A i \in DOMAIN L.fed :
         Cardinality(WithPair(L.ret.events, PairOf(L.fed[i]))) = 1
    /\ Range(L.ret.events) \subseteq Range(L.fed)

\* C7 (as claimed): the entries aggregated are the range filter applied to
\* the deduplication of all entries of all files.
C7_DedupBeforeFilterAsClaimed ==
  (Called /\ L.path = "compute") =>
    Range(L.ret.events) = Range(FilterRange(Deduplicate(L.corpus), L.since, L.until))

\* since <= timestamp <= until, an absent bound imposing no limit.
WithinBounds(e, since, until) ==
  /\ since = <<>> \/ since[1] <= e.timestamp
  /\ until = <<>> \/ e.timestamp <= until[1]

\* Bounds to compare cache keys on.
KeyBounds == { Absent, Some(0), Some(1), Some(2), Some(11), Some(12), Some(-1), Some(-12) }

\* C8: a returned snapshot aggregates only entries within the bounds of the
\* call, the filter keeps every loaded entry within them (the bounds
\* included), the snapshot was computed for the very (since, until) of the
\* call, and different (since, until) pairs have different cache keys.
C8_RangeAndKeyIsolation ==
  /\ Called =>
       /\ \A i \in DOMAIN L.ret.events : WithinBounds(L.ret.events[i], L.since, L.until)
       /\ L.ret.args = << L.since, L.until >>
       /\ L.path = "compute" =>
            \A i \in DOMAIN L.corpus :
              L.corpus[i] \in Range(L.fed) <=> WithinBounds(L.corpus[i], L.since, L.until)
  /\ calls = 0 =>
       \A a, b \in KeyBounds \X KeyBounds :
         CacheKey(a[1], a[2]) = CacheKey(b[1], b[2]) => a = b

\* A bounded query that dropped entries on both sides and kept one at each
\* bound, after a query with other bounds had been cached.
C8_Witness ==
  /\ Called
  /\ L.path = "compute"
  /\ L.since # <<>> /\ L.until # <<>>
  /\ \E i \in DOMAIN L.ret.events : L.ret.events[i].timestamp = L.since[1]
  /\ \E i \in DOMAIN L.ret.events : L.ret.events[i].timestamp = L.until[1]
  /\ \E i \in DOMAIN L.corpus : L.corpus[i].timestamp < L.since[1]
  /\ \E i \in DOMAIN L.corpus : L.corpus[i].timestamp > L.until[1]
  /\ DOMAIN statsCache # {L.key}

\* C9 (as claimed): a call made after the key's entry has expired returns a
\* snapshot with no entry of a file that no longer exists.
C9_DeletedFileAsClaimed ==
  (Called /\ Expired) =>
    \A i \in DOMAIN L.ret.events : L.ret.events[i].src \in DOMAIN L.files

\* C10: a call that finds the key's entry expired, the files being those the
\* entry's snapshot was computed from, returns that very snapshot object,
\* stamps the entry with the current time and changes nothing else.
C10_ReuseFrame ==
  [][ (/\ calls' = calls + 1
       /\ last'[1].key \in DOMAIN statsCache
       /\ now - statsCache[last'[1].key].timestamp >= STATS_CACHE_TTL
       /\ statsCache[last'[1].key].stats.basis = files)
      => (/\ last'[1].ret = statsCache[last'[1].key].stats
          /\ last'[1].prev # <<>> /\ last'[1].ret = last'[1].prev[1].ret
          /\ DOMAIN statsCache' = DOMAIN statsCache
          /\ \A k \in DOMAIN statsCache :
               statsCache'[k] = IF k = last'[1].key
                                THEN [timestamp |-> now, stats |-> statsCache[k].stats]
                                ELSE statsCache[k]
          /\ fileCache' = fileCache
          /\ allEntriesCache' = allEntriesCache
          /\ last'[1].read = {}
          /\ ~last'[1].aggregated
          /\ files' = files /\ now' = now) ]_vars

\* An expired entry re-stamped while another key's entry and the File
\* Cache hold data.
C10_Witness ==
  /\ Called
  /\ Expired
  /\ L.ret.basis = L.files
  /\ L.path = "reuse"
  /\ L.key \in DOMAIN statsCache /\ statsCache[L.key].timestamp = L.at
  /\ DOMAIN statsCache # {L.key}
  /\ DOMAIN fileCache # {}


\* Sums over the values of a per-model map and over a list of day summaries.
RECURSIVE SumCostOver(_, _)
SumCostOver(f, keys) ==
  IF keys = {} THEN 0
  ELSE LET k == CHOOSE k \in keys : TRUE IN f[k].cost + SumCostOver(f, keys \ {k})

RECURSIVE SumTokensOver(_, _)
SumTokensOver(f, keys) ==
  IF keys = {} THEN ZeroTokens
  ELSE LET k == CHOOSE k \in keys : TRUE
       IN AddTokens(f[k].tokens, SumTokensOver(f, keys \ {k}))

RECURSIVE SumDailyCost(_)
SumDailyCost(daily) ==
  IF daily = <<>> THEN 0 ELSE Head(daily).totalCost + SumDailyCost(Tail(daily))

RECURSIVE SumDailyTokens(_)
SumDailyTokens(daily) ==
  IF daily = <<>> THEN ZeroTokens
  ELSE AddTokens(Head(daily).totalTokens, SumDailyTokens(Tail(daily)))

\* C11: in every snapshot held by the Stats Cache or returned by a call,
\* totalCost and each of the four totalTokens counts equal the sums over the
\* byModel entries and the sums over the daily entries.
Consistent(stats) ==
  /\ stats.totalCost = SumCostOver(stats.byModel, DOMAIN stats.byModel)
  /\ stats.totalTokens = SumTokensOver(stats.byModel, DOMAIN stats.byModel)
  /\ stats.totalCost = SumDailyCost(stats.daily)
  /\ stats.totalTokens = SumDailyTokens(stats.daily)

C11_AggregationConsistency ==
  /\ \A k \in DOMAIN statsCache : Consistent(statsCache[k].stats)
  /\ Called => Consistent(L.ret)

\* A snapshot of entries of two models on two days, no part being the whole.
C11_Witness ==
  /\ Called
  /\ L.path = "compute"
  /\ Cardinality(DOMAIN L.ret.byModel) = 2
  /\ Len(L.ret.daily) = 2
  /\ L.ret.totalCost > 0
  /\ \A m \in DOMAIN L.ret.byModel : 0 < L.ret.byModel[m].cost
                                     /\ L.ret.byModel[m].cost < L.ret.totalCost
  /\ \A i \in DOMAIN L.ret.daily : 0 < L.ret.daily[i].totalCost
                                   /\ L.ret.daily[i].totalCost < L.ret.totalCost


\* ------------------------------------------------------------------ pricing
Priced == priceCall # <<>> /\ priceCall[1].returned # <<>>
PC == priceCall[1]

\* C18 (as claimed): what getPricing returns for a non-empty string has the
\* four fields input, output, cacheWrite and cacheRead, all greater than 0.
IsQuadruple(pricing) ==
  /\ DOMAIN pricing = { "input", "output", "cacheWrite", "cacheRead" }
  /\ pricing.input > 0 /\ pricing.output > 0
  /\ pricing.cacheWrite > 0 /\ pricing.cacheRead > 0

C18_PricingTotalAsClaimed ==
  (Priced /\ PC.model # "") => IsQuadruple(PC.pricing[1])

\* The 4.5 tokens of the three families, and their prices.
Tokens45(family) == { family \o "-4-5", family \o "-4.5", family \o "4.5" }
Families == { "opus", "sonnet", "haiku" }
Price45(family) ==
  CASE family = "opus" -> Price(500, 2500, 625, 50)
    [] family = "sonnet" -> Price(300, 1500, 375, 30)
    [] family = "haiku" -> Price(80, 400, 100, 8)

MatchesNoKey(model) ==
  \A i \in DOMAIN MODEL_PRICING :
    /\ MODEL_PRICING[i].key # model
    /\ ~Includes(ToLowerCase(model), ToLowerCase(MODEL_PRICING[i].key))
    /\ ~Includes(ToLowerCase(MODEL_PRICING[i].key), ToLowerCase(model))

Has45(model, family) == \E t \in Tokens45(family) : Includes(ToLowerCase(model), t)

\* C19: a model id that matches no table key exactly or by substring and
\* contains a 4.5 token of a family resolves to that family's 4.5 price.
C19_VersionRulesFirst ==
  Priced =>
    \A f \in Families :
      (MatchesNoKey(PC.model) /\ Has45(PC.model, f)) => PC.pricing[1] = Price45(f)

\* "claude-opus-4-5-experimental" priced as Opus 4.5, whose price is neither
\* the Opus 4 price nor the default.
C19_Witness ==
  /\ Priced
  /\ PC.model = "claude-opus-4-5-experimental"
  /\ MatchesNoKey(PC.model) /\ Has45(PC.model, "opus")
  /\ PC.pricing[1] = TableEntry("claude-opus-4-5-20251101")
  /\ PC.pricing[1] # TableEntry("claude-opus-4-20250514")
  /\ PC.pricing[1] # TableEntry("claude-3-opus-20240229")
  /\ PC.pricing[1] # DEFAULT_PRICING


\* ------------------------------------------------- parsing, one file at a time
\* The parseJsonlFile calls of the latest load loop that read the file, and
\* the lines each of them read.
ParsedCalls == { i \in DOMAIN loads.calls : loads.calls[i].outcome = "parsed" }
DocRead(c) == Content(c.readFile[1].version)

IsRecord(line) == line.text = "json"
IsMalformed(line) == line.text = "malformed"
IsOtherType(line) == IsRecord(line) /\ line.type # "assistant"

NonzeroCount(count) == count # <<>> /\ count[1] # 0

\* A line that parses, of type "assistant", with a message that has a usage
\* block and a model, and with at least one nonzero token count.
Qualifies(line) ==
  /\ IsRecord(line)
  /\ line.type = "assistant"
  /\ line.message # <<>>
  /\ line.message[1].usage # <<>>
  /\ line.message[1].model # <<>> /\ line.message[1].model # << "" >>
  /\ \/ NonzeroCount(line.message[1].usage[1].input_tokens)
     \/ NonzeroCount(line.message[1].usage[1].output_tokens)
     \/ NonzeroCount(line.message[1].usage[1].cache_creation_input_tokens)
     \/ NonzeroCount(line.message[1].usage[1].cache_read_input_tokens)

\* The identifier a record is known by.
RecordId(line) ==
  IF line.message[1].id # <<>> THEN line.message[1].id[1] ELSE line.uuid[1]

QualifyingLines(doc) == SelectSeq(doc, Qualifies)
QualifyingIds(doc) ==
  [i \in DOMAIN QualifyingLines(doc) |-> RecordId(QualifyingLines(doc)[i])]
EventIds(entries) == [i \in DOMAIN entries |-> entries[i].messageId]

\* C12: the events parseJsonlFile returns are those of the qualifying
\* records, one each, and are the events it returns for the file without
\* its records of other types (so no count, total or summary differs).
C12_OnlyQualifyingCounted ==
  \A i \in ParsedCalls :
    /\ EventIds(loads.calls[i].ret) = QualifyingIds(DocRead(loads.calls[i]))
    /\ loads.calls[i].ret =
         ParseLines(SelectSeq(DocRead(loads.calls[i]), LAMBDA l : ~IsOtherType(l)),
                    loads.calls[i].path)

\* A "user" record between two valid assistant records: two events.
C12_Witness ==
  \E i \in ParsedCalls :
    /\ Len(DocRead(loads.calls[i])) = 3
    /\ Qualifies(DocRead(loads.calls[i])[1])
    /\ IsOtherType(DocRead(loads.calls[i])[2])
    /\ Qualifies(DocRead(loads.calls[i])[3])
    /\ Len(loads.calls[i].ret) = 2

HasTokens(e) ==
  \/ e.usage.inputTokens # 0
  \/ e.usage.outputTokens # 0
  \/ e.usage.cacheCreationTokens # 0
  \/ e.usage.cacheReadTokens # 0

AllHaveTokens(entries) == \A i \in DOMAIN entries : HasTokens(entries[i])

\* C13: every entry in the File Cache, returned by parseJsonlFile, gathered
\* by the load loop or aggregated in a snapshot has a nonzero token count.
C13_NonzeroTokens ==
  /\ \A p \in DOMAIN fileCache : AllHaveTokens(fileCache[p].entries)
  /\ \A i \in DOMAIN loads.calls : AllHaveTokens(loads.calls[i].ret)
  /\ scan # <<>> => AllHaveTokens(scan[1].allEntries)
  /\ loads.result # <<>> => AllHaveTokens(loads.result[1])
  /\ \A k \in DOMAIN statsCache : AllHaveTokens(statsCache[k].stats.events)

\* A file with a record of no tokens and a record that counts, parsed and
\* cached.
C13_Witness ==
  \E i \in ParsedCalls :
    /\ \E n \in DOMAIN DocRead(loads.calls[i]) :
         /\ IsRecord(DocRead(loads.calls[i])[n])
         /\ DocRead(loads.calls[i])[n].uuid = << "k6" >>
    /\ Len(loads.calls[i].ret) = 1
    /\ loads.calls[i].path \in DOMAIN fileCache
    /\ Len(fileCache[loads.calls[i].path].entries) = 1

\* C14: for a file of valid and malformed lines parseJsonlFile returns the
\* events of the valid lines in file order, which are the events it returns
\* for the file without the malformed lines, and caches them under the
\* file's mtime.
C14_MalformedSkipped ==
  \A i \in ParsedCalls :
    /\ EventIds(loads.calls[i].ret) = QualifyingIds(DocRead(loads.calls[i]))
    /\ loads.calls[i].ret =
         ParseLines(SelectSeq(DocRead(loads.calls[i]), LAMBDA l : ~IsMalformed(l)),
                    loads.calls[i].path)
    /\ loads.calls[i].path \in DOMAIN loads.calls[i].cacheAfter
    /\ loads.calls[i].cacheAfter[loads.calls[i].path] =
         [mtime |-> loads.calls[i].readFile[1].mtime, entries |-> loads.calls[i].ret]

\* A malformed line between two valid records: both events, in file order.
C14_Witness ==
  \E i \in ParsedCalls :
    /\ Len(DocRead(loads.calls[i])) = 3
    /\ Qualifies(DocRead(loads.calls[i])[1])
    /\ IsMalformed(DocRead(loads.calls[i])[2])
    /\ Qualifies(DocRead(loads.calls[i])[3])
    /\ RecordId(DocRead(loads.calls[i])[1]) # RecordId(DocRead(loads.calls[i])[3])
    /\ EventIds(loads.calls[i].ret) =
         << RecordId(DocRead(loads.calls[i])[1]), RecordId(DocRead(loads.calls[i])[3]) >>
    /\ loads.calls[i].path \in DOMAIN fileCache

\* ------------------------------------------- the load loop and the writer
FailedCalls == { i \in DOMAIN loads.calls : loads.calls[i].outcome = "failed" }

RECURSIVE ConcatRets(_)
ConcatRets(calls_) ==
  IF calls_ = <<>> THEN <<>> ELSE Head(calls_).ret \o ConcatRets(Tail(calls_))

\* C15: a parseJsonlFile call that cannot stat or read its file returns an
\* empty list, leaves no File Cache entry for the path and leaves the
\* entries of the other paths as they were; the loop loads every discovered
\* file and ends with the events the calls returned.
C15_UnreadableFile ==
  /\ \A i \in FailedCalls :
       /\ loads.calls[i].ret = <<>>
       /\ loads.calls[i].path \notin DOMAIN loads.calls[i].cacheAfter
       /\ DOMAIN loads.calls[i].cacheAfter =
            DOMAIN loads.calls[i].cacheBefore \ { loads.calls[i].path }
       /\ \A q \in DOMAIN loads.calls[i].cacheAfter :
            loads.calls[i].cacheAfter[q] = loads.calls[i].cacheBefore[q]
  /\ loads.result # <<>> =>
       /\ [i \in DOMAIN loads.calls |-> loads.calls[i].path] = loads.discovered
       /\ loads.result[1] = ConcatRets(loads.calls)
       /\ \A i \in ParsedCalls :
            EventIds(loads.calls[i].ret) = QualifyingIds(DocRead(loads.calls[i]))

\* A loop that lost a file it had cached, between the stat and the read, and
\* ended with the events of the other file, whose cache entry it kept.
C15_Witness ==
  /\ loads.result # <<>>
  /\ loads.result[1] # <<>>
  /\ \E i \in FailedCalls :
       /\ loads.calls[i].statFile # <<>>
       /\ loads.calls[i].path \in DOMAIN loads.calls[i].cacheBefore
       /\ DOMAIN loads.calls[i].cacheAfter # {}
  /\ \E i \in DOMAIN loads.calls : loads.calls[i].outcome # "failed"
                                   /\ loads.calls[i].ret # <<>>

\* C16 (as claimed): the entry a parseJsonlFile call caches holds the
\* events of one version the file had during the call, under the mtime of
\* that version.
C16_VersionConsistencyAsClaimed ==
  \A i \in ParsedCalls :
    \E f \in { loads.calls[i].statFile[1], loads.calls[i].readFile[1] } :
      /\ loads.calls[i].cacheAfter[loads.calls[i].path].mtime = f.mtime
      /\ loads.calls[i].cacheAfter[loads.calls[i].path].entries =
           ParseLines(Content(f.version), loads.calls[i].path)
      /\ loads.calls[i].ret = loads.calls[i].cacheAfter[loads.calls[i].path].entries

\* ------------------------------------------------------------ cost of an event
HasPrices(pricing) ==
  { "input", "output", "cacheWrite", "cacheRead" } \subseteq DOMAIN pricing

\* Sum over the four kinds of (count / 1,000,000) times the per-million
\* price, absent counts taken as 0, in units of 10^-8 dollars.
ClaimedCost(usage, pricing) ==
  OrZero(usage.input_tokens) * pricing.input
    + OrZero(usage.output_tokens) * pricing.output
    + OrZero(usage.cache_creation_input_tokens) * pricing.cacheWrite
    + OrZero(usage.cache_read_input_tokens) * pricing.cacheRead

CostAsClaimed(line, e) ==
  /\ HasPrices(getPricing(line.message[1].model[1]))
  /\ e.cost = ClaimedCost(line.message[1].usage[1], getPricing(line.message[1].model[1]))
  /\ RecordId(line) = "k1" => e.cost = 18 * 100000000

\* C20 (as claimed): the cost of every parsed event is the sum over the
\* four token kinds of (count / 1,000,000) times the resolved price; a
\* million input and a million output tokens of Sonnet 3.5 cost 18 dollars.
C20_CostFormulaAsClaimed ==
  \A i \in ParsedCalls :
    /\ Len(loads.calls[i].ret) = Len(QualifyingLines(DocRead(loads.calls[i])))
    /\ \A n \in DOMAIN loads.calls[i].ret :
         CostAsClaimed(QualifyingLines(DocRead(loads.calls[i]))[n], loads.calls[i].ret[n])


\* ------------------------------------------------------------ the dashboard
\* C17: at most one loadData pass is on the call stack, the passes started
\* are the passes completed and the one running, and a pass requested while
\* another was running runs after that one has completed.
C17_OnePassAtATime ==
  /\ Len(running) <= 1
  /\ app.mounted =>
       /\ app.started = app.completed + Len(running)
       /\ \A i \in DOMAIN running :
            /\ running[i].pass = app.started
            /\ running[i].during > 0 => running[i].during <= app.completed

\* A refresh requested by the timer or the 'r' key during the second query
\* of a pass, now running, a later request waiting meanwhile.
C17_Witness ==
  /\ app.mounted
  /\ Len(running) = 1
  /\ running[1].during > 0
  /\ running[1].during <= app.completed
  /\ running[1].step = "all"
  /\ pending # <<>>
  /\ pending[1].during = app.started


\* ----------------------------------------------------- sessions and hours
\* The snapshots to look at: those the Stats Cache holds and the one the
\* latest call returned.
Snapshots ==
  { statsCache[k].stats : k \in DOMAIN statsCache } \cup (IF Called THEN { L.ret } ELSE {})

EventsOfSession(stats, sessionId) ==
  SelectSeq(stats.events, LAMBDA e : e.sessionId = sessionId)

Timestamps(events) == { events[i].timestamp : i \in DOMAIN events }
Earliest(events) == CHOOSE t \in Timestamps(events) : \A u \in Timestamps(events) : t <= u
Latest(events) == CHOOSE t \in Timestamps(events) : \A u \in Timestamps(events) : t >= u

\* summary is the summary of the events of its session among events.
SummarisesSession(summary, events) ==
  /\ events # <<>>
  /\ summary.firstMessage = Earliest(events)
  /\ summary.lastMessage = Latest(events)
  /\ summary.messageCount = Len(events)
  /\ summary.totalCost = SumCost(events)
  /\ summary.totalTokens = SumTokens(events)
  /\ \E i \in DOMAIN events : /\ events[i].timestamp = Latest(events)
                              /\ events[i].model = summary.model

\* C21: in every snapshot, each session summary carries the model of a
\* chronologically last event of its session, firstMessage and lastMessage
\* are the least and the greatest timestamp of the session's events, and
\* messageCount, totalCost and totalTokens cover exactly the session's
\* events among the deduplicated events the snapshot was computed from.
C21_SessionSummaries ==
  \A stats \in Snapshots :
    \A i \in DOMAIN stats.sessions :
      SummarisesSession(stats.sessions[i],
                        EventsOfSession(stats, stats.sessions[i].sessionId))

\* A computed snapshot with a session of three events whose first event is
\* of another model than its last.
C21_Witness ==
  /\ Called
  /\ L.path = "compute"
  /\ \E i \in DOMAIN L.ret.sessions :
       /\ L.ret.sessions[i].messageCount = 3
       /\ L.ret.sessions[i].firstMessage < L.ret.sessions[i].lastMessage
       /\ \E j \in DOMAIN L.ret.events :
            /\ L.ret.events[j].sessionId = L.ret.sessions[i].sessionId
            /\ L.ret.events[j].timestamp = L.ret.sessions[i].firstMessage
            /\ L.ret.events[j].model # L.ret.sessions[i].model


\* The events of the snapshot that lie in the calendar day beginning at
\* todayStart, and those of them in a given hour of the day.
EventsOfDay(stats, todayStart) ==
  SelectSeq(stats.events, LAMBDA e : IsTodayBounded(e, todayStart))
EventsOfHour(stats, todayStart, hour) ==
  SelectSeq(EventsOfDay(stats, todayStart), LAMBDA e : GetHours(e.timestamp) = hour)

HourlyAt(hourly, hour) == { i \in DOMAIN hourly : hourly[i].hour = hour }

\* hourly summarises exactly the events of the day beginning at todayStart.
HourlyCovers(stats, todayStart) ==
  \A hour \in 0..23 :
    IF EventsOfHour(stats, todayStart, hour) = <<>>
    THEN HourlyAt(stats.hourly, hour) = {}
    ELSE /\ Cardinality(HourlyAt(stats.hourly, hour)) = 1
         /\ \A i \in HourlyAt(stats.hourly, hour) :
              /\ stats.hourly[i].messageCount = Len(EventsOfHour(stats, todayStart, hour))
              /\ stats.hourly[i].cost = SumCost(EventsOfHour(stats, todayStart, hour))
              /\ stats.hourly[i].tokens
                   = TokenCount(SumTokens(EventsOfHour(stats, todayStart, hour)))

\* C22: in every snapshot the call that computed it returns, the hourly
\* summaries cover exactly the events from the midnight that began the day
\* of the computation up to, not including, the next midnight, each under
\* its hour of the day; events of earlier and of later days are in none.
C22_HourlyIsTodayAsClaimed ==
  (Called /\ L.path = "compute") => HourlyCovers(L.ret, TodayStart(L.at))


\* ---------------------------------------------------------- the --json mode
Ran == out # <<>>
O == out[1]

\* C23: a run in --json mode prints the document, whose messages is the
\* snapshot's messageCount, and exits with code 0; the Summary panel and the
\* QuickStats panel given the same snapshot show that count too.
C23_MessageCountAsClaimed ==
  Ran => /\ O.exitCode = 0
         /\ O.stdout # <<>>
         /\ \A i \in DOMAIN O.stdout : O.stdout[i].messages = O.stats.messageCount
         /\ SummaryMessages(O.stats) = Some(O.stats.messageCount)
         /\ QuickStatsMessages(O.stats) = Some(O.stats.messageCount)


\* C30: the breakdown that lines 520-529 build from the snapshot of a run
\* has one entry for every model id of stats.byModel, holding that model's
\* formatted cost and tokens, also when two ids share a display name.
C30_BreakdownAsClaimed ==
  Ran => /\ Cardinality(DOMAIN Breakdown(O.stats)) = Cardinality(DOMAIN O.stats.byModel)
         /\ \A m \in DOMAIN O.stats.byModel :
              /\ O.stats.byModel[m].displayName \in DOMAIN Breakdown(O.stats)
              /\ Breakdown(O.stats)[O.stats.byModel[m].displayName]
                   = BreakdownEntry(O.stats.byModel[m])


\* ------------------------------------------------- display names and prices
\* The family and version of each entry of MODEL_PRICING, as pricing.ts
\* names the entries (the entry of Claude 3.5 Haiku is also named Haiku 4.5
\* there), written the way display names are.
EntryNames(key) ==
  CASE key = "claude-opus-4-5-20251101" -> { "Opus 4.5" }
    [] key = "claude-sonnet-4-5-20250929" -> { "Sonnet 4.5" }
    [] key = "claude-haiku-4-5-20251001" -> { "Haiku 4.5" }
    [] key = "claude-opus-4-20250514" -> { "Opus 4" }
    [] key = "claude-sonnet-4-5-20241022" -> { "Sonnet 4.5" }
    [] key = "claude-sonnet-4-20250514" -> { "Sonnet 4" }
    [] key = "claude-3-7-sonnet-20250219" -> { "Sonnet 3.7" }
    [] key = "claude-3-5-sonnet-20241022" -> { "Sonnet 3.5" }
    [] key = "claude-3-5-sonnet-20240620" -> { "Sonnet 3.5" }
    [] key = "claude-3-5-haiku-20241022" -> { "Haiku 3.5", "Haiku 4.5" }
    [] key = "claude-3-opus-20240229" -> { "Opus 3" }
    [] key = "claude-3-sonnet-20240229" -> { "Sonnet 3" }
    [] key = "claude-3-haiku-20240307" -> { "Haiku 3" }

Named == priceCall # <<>> /\ priceCall[1].displayName # <<>>

\* C24: for every model id that getPricing resolves to an entry of the
\* price table, the display name getModelDisplayName gives the id names the
\* family and version of that entry.
C24_DisplayNameIsPricedFamilyAsClaimed ==
  (Priced /\ Named /\ IsPresent(PC.key)) => PC.displayName[1] \in EntryNames(PC.key[1])


\* -------------------------------------------------------------- selection
\* The list that has the focus, as the last render displayed it, and the
\* index selected in it.
Rendered == app.mounted /\ running = <<>> /\ app.stats # <<>>
FocusedList ==
  IF app.focusedBlock = "sessions" THEN app.stats[1].sessions ELSE app.stats[1].daily
FocusedIndex ==
  IF app.focusedBlock = "sessions" THEN app.sessionsIndex ELSE app.dailyIndex

\* C29: whenever the dashboard displays its lists, the selected index of
\* the focused list is at least 0 and less than the length of the list, if
\* the list is not empty.
C29_SelectionOnARowAsClaimed ==
  (Rendered /\ FocusedList # <<>>) => (0 <= FocusedIndex /\ FocusedIndex < Len(FocusedList))


\* ------------------------------------------------- the lists of a snapshot
SessionIdsOf(stats) == { stats.events[i].sessionId : i \in DOMAIN stats.events }
DatesOf(stats) == { DateString(stats.events[i].timestamp) : i \in DOMAIN stats.events }

RECURSIVE SumMessageCounts(_)
SumMessageCounts(list) ==
  IF list = <<>> THEN 0 ELSE Head(list).messageCount + SumMessageCounts(Tail(list))

\* One summary for every session of the events, the later lastMessage first.
SessionsListed(stats) ==
  /\ \A id \in SessionIdsOf(stats) :
       Cardinality({ i \in DOMAIN stats.sessions : stats.sessions[i].sessionId = id }) = 1
  /\ \A i \in DOMAIN stats.sessions : stats.sessions[i].sessionId \in SessionIdsOf(stats)
  /\ \A i, j \in DOMAIN stats.sessions :
       i < j => stats.sessions[i].lastMessage >= stats.sessions[j].lastMessage

\* One summary for every local date of the events, the later date first,
\* and every event counted in the summary of its date and in no other.
DaysListed(stats) ==
  /\ \A date \in DatesOf(stats) :
       Cardinality({ i \in DOMAIN stats.daily : stats.daily[i].date = date }) = 1
  /\ \A i \in DOMAIN stats.daily :
       /\ stats.daily[i].date \in DatesOf(stats)
       /\ stats.daily[i].messageCount
            = Cardinality({ k \in DOMAIN stats.events :
                              DateString(stats.events[k].timestamp) = stats.daily[i].date })
  /\ SumMessageCounts(stats.daily) = Len(stats.events)
  /\ \A i, j \in DOMAIN stats.daily :
       i < j => LocaleLess(stats.daily[j].date, stats.daily[i].date)

\* At most one entry for an hour, the hours 0..23 ascending.
HoursListed(stats) ==
  /\ \A i \in DOMAIN stats.hourly : stats.hourly[i].hour \in 0..23
  /\ \A i, j \in DOMAIN stats.hourly : i < j => stats.hourly[i].hour < stats.hourly[j].hour

\* C27: in every snapshot, sessions holds exactly one summary for each
\* sessionId of the events, in descending order of lastMessage; daily holds
\* exactly one summary for each local date, in descending order of the date
\* string, every event being counted in exactly one day; hourly holds at
\* most one entry for an hour, in ascending order of the hour.
C27_ListsGroupedAndOrdered ==
  \A stats \in Snapshots : SessionsListed(stats) /\ DaysListed(stats) /\ HoursListed(stats)

\* A snapshot of three sessions with different last messages, on two days,
\* with entries for several hours.
C27_Witness ==
  /\ Called
  /\ L.path = "compute"
  /\ Len(L.ret.sessions) = 3
  /\ L.ret.sessions[1].lastMessage > L.ret.sessions[2].lastMessage
  /\ L.ret.sessions[2].lastMessage > L.ret.sessions[3].lastMessage
  /\ Len(L.ret.daily) = 2
  /\ Len(L.ret.hourly) > 2


\* C26: the hourly summaries of every snapshot a call returns, freshly
\* computed or from the Stats Cache, are those of the calendar day of the
\* return: they are what computeStats builds of the snapshot's events on
\* that day, also when the date has changed since the computation.
C26_HourlyOfTheDayOfReturnAsClaimed ==
  Called => L.ret.hourly = Hourly(OfToday(L.ret.events, TodayStart(L.at)))


\* ---------------------------------------------------- dashboard freshness
\* A periodic refresh has completed, no file has changed since its first
\* query, and no query of it was answered by a Stats Cache entry younger
\* than the time-to-live, but for the second query finding the entry the
\* first one has just stored (the range being all time).
RefreshedAfterTtl ==
  /\ app.mounted
  /\ running = <<>>
  /\ app.completed > 0
  /\ app.trigger = "tick"
  /\ app.rangeCall # <<>>
  /\ Called
  /\ app.rangeCall[1].files = files
  /\ L.files = files
  /\ app.rangeCall[1].path # "ttl"
  /\ L.path = "ttl" => L.key = app.rangeCall[1].key

Expected(ret, fs) ==
  computeStats(Deduplicate(FilterRange(
                 LoadLoop(getAllJsonlFiles(fs), fs, EmptyMap, <<>>, {}).allEntries,
                 ret.args[1], ret.args[2])),
               ret.todayStart, ret.id, ret.args, ret.basis)

\* The call recorded in h was a reload during which a file was rewritten.
Raced(h) == h.began # h.files

\* The latest call came next for its key after a reload a writer raced
\* with, was not answered by an entry younger than the time-to-live, and no
\* file has changed since that reload returned.
NextAfterRace ==
  /\ Called
  /\ L.prev # <<>>
  /\ Raced(L.prev[1])
  /\ L.path # "ttl"
  /\ L.prev[1].files = L.files
  /\ hist[L.key].files = L.files

\* C28: the next call for a key after a reload of that key during which a
\* file was rewritten, coming after the time-to-live has run out, returns
\* the snapshot of the files as rewritten.
C28_RacingModificationNotLostAsClaimed ==
  NextAfterRace => L.ret = Expected(L.ret, L.files)

=============================================================================
